---- MODULE Spec2Model ----
(***************************************************************************)
(* Model of the neurochess-arena game store (src/src/store/gameStore.ts),  *)
(* the move-request loop (src/src/lib/llm/index.ts) and the wrapper around *)
(* the rules engine (src/src/lib/chessEngine.ts).                          *)
(*                                                                         *)
(* chess.js is an external library.  It is represented by a finite rules   *)
(* oracle: a game graph whose nodes are board positions and whose edges    *)
(* are the verbose moves the library offers there.  A Chess object is a    *)
(* heap cell holding the node reached and the number of plies played.      *)
(***************************************************************************)
EXTENDS Integers, Sequences, FiniteSets, TLC

\* ------------------------------------------------------------------ bounds
\* Largest number of superseded Chess objects still held by calls in flight.
MaxGames == 1
\* Largest number of setTimeout callbacks pending at once.
MaxTimers == 1
\* Largest value of llmConfig.maxRetries.
MaxRetries == 2
\* Largest value of llmConfig.maxRetries when the waits between attempts are
\* followed.
MaxWaitRetries == 4
\* Largest number of pieces (blocks, objects, phrases, words) in a response
\* text given to extractMoveFromResponse.
MaxItems == 3
\* Largest number of moves in a history given to buildChessUserPrompt.
MaxHistory == 11
\* Largest number of entries of debugLogs that is followed.
MaxLogs == 3
\* Largest number of entries added to debugLogs beyond the number it keeps.
MaxOverflow == 3

\* ------------------------------------------------- tokens and the oracle
\* A move token is a string; it is kept as the sequence of its characters so
\* that slicing and length tests are those of the source.

\* String.prototype.slice(a, b) for 0 <= a <= b (zero-based, end exclusive).
Slice(s, a, b) ==
  LET lo == IF a > Len(s) THEN Len(s) ELSE a
      hi == IF b > Len(s) THEN Len(s) ELSE b
  IN  IF hi <= lo THEN <<>> ELSE SubSeq(s, lo + 1, hi)

\* Array.prototype.slice(start) for a negative start: the last -start
\* elements, or the whole array when it is shorter.
sliceLast(array, count) ==
  LET first == IF Len(array) > count THEN Len(array) - count + 1 ELSE 1 IN
  SubSeq(array, first, Len(array))

\* undefined / the empty string: both are falsy in the source's tests.
Undefined == <<>>

\* game.moves({verbose: true}) of the oracle, by board node.  Each move has
\* from, to, promotion (Undefined when absent), san and the node it leads to.
\* The table is small and does not follow the rules of chess move by move:
\* the wrappers depend only on which moves a node offers, on whether a move
\* promotes, on two lines of play meeting in one node, and on the verdict
\* the library gives on a node.
Mv(f, t, p, s, n) == [from |-> f, to |-> t, promotion |-> p, san |-> s, next |-> n]

OracleMoves(node) ==
  CASE node = "S"  -> { Mv(<<"f","2">>, <<"f","3">>, Undefined, "f3", "A1"),
                        Mv(<<"g","2">>, <<"g","4">>, Undefined, "g4", "A2"),
                        Mv(<<"e","2">>, <<"e","4">>, Undefined, "e4", "E1") }
    [] node = "A1" -> { Mv(<<"e","7">>, <<"e","5">>, Undefined, "e5", "A3") }
    [] node = "A2" -> { Mv(<<"e","7">>, <<"e","5">>, Undefined, "e5", "A4") }
    [] node = "A3" -> { Mv(<<"g","2">>, <<"g","4">>, Undefined, "g4", "A5") }
    [] node = "A4" -> { Mv(<<"f","2">>, <<"f","3">>, Undefined, "f3", "A5") }
    [] node = "A5" -> { Mv(<<"d","8">>, <<"h","4">>, Undefined, "Qh4#", "MB") }
    [] node = "E1" -> { Mv(<<"f","7">>, <<"f","6">>, Undefined, "f6", "E2") }
    [] node = "E2" -> { Mv(<<"d","1">>, <<"h","5">>, Undefined, "Qh5+", "C1"),
                        Mv(<<"a","7">>, <<"a","8">>, <<"q">>, "a8=Q#", "MW") }
    [] node = "C1" -> { Mv(<<"d","8">>, <<"h","4">>, Undefined, "Qh4#", "MB"),
                        Mv(<<"g","7">>, <<"g","6">>, Undefined, "g6", "DS"),
                        Mv(<<"e","8">>, <<"e","7">>, Undefined, "Ke7", "DR"),
                        Mv(<<"e","8">>, <<"f","7">>, Undefined, "Kf7", "DI"),
                        Mv(<<"d","8">>, <<"e","7">>, Undefined, "Qe7", "DF") }
    [] OTHER       -> {}

Nodes == {"S", "A1", "A2", "A3", "A4", "A5", "MB", "E1", "E2", "MW", "C1",
          "DS", "DR", "DI", "DF"}

\* The oracle's verdict on a node: what isCheckmate(), isStalemate(),
\* isThreefoldRepetition(), isInsufficientMaterial(), isDraw() and isCheck()
\* answer there.
NodeKind(node) ==
  CASE node \in {"MB", "MW"} -> "checkmate"
    [] node = "DS"           -> "stalemate"
    [] node = "DR"           -> "threefold"
    [] node = "DI"           -> "insufficient"
    [] node = "DF"           -> "fifty"
    [] node = "C1"           -> "check"
    [] OTHER                 -> "none"

\* A Chess object: the board node and the number of plies in its history.
NewChess == [node |-> "S", ply |-> 0]

\* game.turn()
Turn(g) == IF g.ply % 2 = 0 THEN "w" ELSE "b"

\* game.fen(): board, side to move and full-move number.
FenOf(g) == <<g.node, Turn(g), (g.ply \div 2) + 1>>

\* types: INITIAL_FEN, the literal the store starts from.
INITIAL_FEN == <<"S", "w", 1>>

\* chessEngine.ts uciToMove
uciToMove(uci) ==
  [from      |-> Slice(uci, 0, 2),
   to        |-> Slice(uci, 2, 4),
   promotion |-> IF Len(uci) = 5 THEN <<uci[5]>> ELSE Undefined]

\* chessEngine.ts isLegalMove
isLegalMove(g, uci) ==
  LET m == uciToMove(uci) IN
  \E move \in OracleMoves(g.node) :
      /\ move.from = m.from
      /\ move.to = m.to
      /\ IF m.promotion # Undefined THEN move.promotion = m.promotion
                                    ELSE move.promotion = Undefined

\* game.move({from, to, promotion}): the oracle moves the library accepts for
\* the request (none: the library throws).  A promotion letter given for a move
\* that does not promote is ignored; a move that promotes needs its letter.
EngineMoves(g, m) ==
  { move \in OracleMoves(g.node) :
      /\ move.from = m.from
      /\ move.to = m.to
      /\ (move.promotion # Undefined => move.promotion = m.promotion) }

\* chessEngine.ts getLegalMoves: the tokens of the moves the library offers.
getLegalMoves(g) ==
  { move.from \o move.to \o move.promotion : move \in OracleMoves(g.node) }

\* A getCurrentTurn that names the side that has just moved.
getCurrentTurn_Swapped(g) == IF Turn(g) = "w" THEN "black" ELSE "white"

\* chessEngine.ts getCurrentTurn
getCurrentTurn(g) == IF Turn(g) = "w" THEN "white" ELSE "black"

\* A makeMove that forgets the promotion letter in the token it records.
RecordedUci_NoPromotion(move) == move.from \o move.to

\* chessEngine.ts 56: the token makeMove records for the move the library made.
RecordedUci(move) == move.from \o move.to \o move.promotion

\* The MoveRecord slot when makeMove returns null.
NullRecord == [san |-> "", uci |-> <<>>, fen |-> <<>>, color |-> "", moveNumber |-> 0]

\* A makeMove that reads the fen before it makes the move.
makeMove_FenBefore(g, uci) ==
  LET m  == uciToMove(uci)
      ms == EngineMoves(g, m)
  IN  IF ms = {}
        THEN [ok |-> FALSE, game |-> g, record |-> NullRecord]
        ELSE LET move == CHOOSE x \in ms : TRUE
                 g2   == [node |-> move.next, ply |-> g.ply + 1]
             IN  [ok     |-> TRUE,
                  game   |-> g2,
                  record |-> [san        |-> move.san,
                              uci        |-> RecordedUci(move),
                              fen        |-> FenOf(g),
                              color      |-> IF Turn(g) = "w" THEN "white" ELSE "black",
                              moveNumber |-> (g2.ply + 1) \div 2]]

\* chessEngine.ts makeMove: ok is FALSE when it returns null; otherwise game is
\* the mutated object and record the MoveRecord returned.
makeMove(g, uci) ==
  LET m  == uciToMove(uci)
      ms == EngineMoves(g, m)
  IN  IF ms = {}
        THEN [ok |-> FALSE, game |-> g, record |-> NullRecord]
        ELSE LET move == CHOOSE x \in ms : TRUE
                 g2   == [node |-> move.next, ply |-> g.ply + 1]
             IN  [ok     |-> TRUE,
                  game   |-> g2,
                  record |-> [san        |-> move.san,
                              uci        |-> RecordedUci(move),
                              fen        |-> FenOf(g2),
                              color      |-> IF Turn(g) = "w" THEN "white" ELSE "black",
                              moveNumber |-> (g2.ply + 1) \div 2]]

\* chessEngine.ts getGameStatus
getGameStatus(g) ==
  LET kind == NodeKind(g.node) IN
  CASE kind = "checkmate" ->
         LET winner == IF Turn(g) = "w" THEN "black" ELSE "white" IN
         [isGameOver |-> TRUE, status |-> <<"Checkmate!", winner>>, winner |-> winner]
    [] kind = "stalemate" ->
         [isGameOver |-> TRUE, status |-> <<"Stalemate! Game is a draw.">>, winner |-> "undefined"]
    [] kind = "threefold" ->
         [isGameOver |-> TRUE, status |-> <<"Draw by threefold repetition.">>, winner |-> "undefined"]
    [] kind = "insufficient" ->
         [isGameOver |-> TRUE, status |-> <<"Draw by insufficient material.">>, winner |-> "undefined"]
    [] kind = "fifty" ->
         [isGameOver |-> TRUE, status |-> <<"Draw by fifty-move rule.">>, winner |-> "undefined"]
    [] kind = "check" ->
         [isGameOver |-> FALSE, status |-> <<"is in check!", getCurrentTurn(g)>>, winner |-> "undefined"]
    [] OTHER ->
         [isGameOver |-> FALSE, status |-> <<"to move", getCurrentTurn(g)>>, winner |-> "undefined"]

\* --------------------------------------------------------------- inputs
\* Shorthand for a token without and with a promotion letter.
T4(a, b, c, d) == <<a, b, c, d>>
T5(a, b, c, d, e) == <<a, b, c, d, e>>

\* Tokens the oracle offers somewhere in the graph, in coordinate notation.
OracleTokens ==
  { mv.from \o mv.to \o mv.promotion : mv \in UNION { OracleMoves(n) : n \in Nodes } }

\* Well-formed tokens that are legal nowhere: a move the oracle never offers, a
\* promotion letter on a move that does not promote, a promotion without its
\* letter.
NeverLegal == { T4("a","1","a","8"), T5("e","2","e","4","q"), T4("a","7","a","8") }

\* Every argument tried for makeHumanMove(uci): the board builds the argument
\* as source square, target square and an optional promotion letter
\* (ChessBoard.tsx 66, 78, 83), so the strings are those of the token grammar.
AllTokens == OracleTokens \cup NeverLegal

\* Arguments tried for makeHumanMove(uci) next to the asynchronous
\* operations: a move legal at the start and a move legal nowhere.
HumanInputs == { T4("e","2","e","4"), T4("a","1","a","8") }

\* Moves a provider's parsed response can carry: extractMoveFromResponse only
\* returns strings of the token grammar.
AiMoves == { T4("e","2","e","4"), T4("a","1","a","8") }

\* Moves tried as responses when the request loop is checked by itself.
PipelineMoves == { T4("e","2","e","4"), T4("f","7","f","6"), T4("a","1","a","8") }

\* Ways one attempt of the request loop can fail: fetch rejects, the response
\* is not ok, the provider reports an error, the response has no content, no
\* move can be extracted from it.
AllErrorKinds == {"transport", "http", "provider_error", "no_content", "no_move"}

\* The failure tried next to the other store operations.
ErrorKinds == {"transport"}

\* Values of llmConfig.maxRetries.
RetryChoices == 1..MaxRetries

\* The argument that makes a seat an AI with a key.
AiWithKey == [type |-> "ai", llmConfig |-> [apiKey |-> "sk"]]

\* Arguments tried for setWhitePlayer / setBlackPlayer: Partial<PlayerConfig>.
PartialConfigs ==
  { [type |-> "human", llmConfig |-> [apiKey |-> ""]],
    [type |-> "ai",    llmConfig |-> [apiKey |-> ""]],
    AiWithKey }

\* Arguments that make a seat an AI with a key and a retry limit.
RetryConfigs ==
  { [type |-> "ai", llmConfig |-> [apiKey |-> "sk", maxRetries |-> n]] :
      n \in RetryChoices }

\* gameStore.ts defaultPlayerConfig.llmConfig.maxRetries
DefaultMaxRetries == 3

\* gameStore.ts defaultPlayerConfig (the fields the store reads).
defaultPlayerConfig ==
  [type |-> "human", llmConfig |-> [apiKey |-> "", maxRetries |-> DefaultMaxRetries]]

\* gameStore.ts 462-471: the players are persisted and rehydrated when the
\* store is constructed; the stored seat is the default one with the retry
\* limit the user last chose.
PersistedPlayer == [defaultPlayerConfig EXCEPT !.llmConfig.maxRetries = MaxRetries]

\* Object spread {...base, ...patch}.
Spread(base, patch) ==
  [k \in (DOMAIN base) \cup (DOMAIN patch) |->
     IF k \in DOMAIN patch THEN patch[k] ELSE base[k]]

\* ------------------------------------------------------------------ state
\* Object identities: 0..MaxGames, so at most MaxGames superseded objects are
\* still referenced by calls in flight.
Ids == 0..MaxGames

VARIABLES
  game,            \* the store's game: the id of the current Chess object
  heap,            \* the Chess objects, by id
  fen, moveHistory, currentTurn, status, statusMessage,
  whitePlayer, blackPlayer,
  isThinking, thinkingPlayer, autoPlay,
  req,             \* the requestAIMove call awaiting requestLLMMove, by gameRef
  timers,          \* pending auto-play setTimeout callbacks
  debugMode,       \* whether moves and requests are logged
  debugLogs,       \* the entries logged, oldest first
  last             \* the last operation and what it returned (observation only)

vars == <<game, heap, fen, moveHistory, currentTurn, status, statusMessage,
          whitePlayer, blackPlayer, isThinking, thinkingPlayer, autoPlay,
          req, timers, debugMode, debugLogs, last>>

gameVars   == <<game, heap, fen, moveHistory, currentTurn, status>>
playerVars == <<whitePlayer, blackPlayer>>
debugVars  == <<debugMode, debugLogs>>

\* No call in flight for an object.
\* delay: the milliseconds of the call's last wait between attempts.
\* debugMode: the value of debugMode the call read when it started.
\* fen: the position the call sent to the provider.
NoReq == [pc |-> "none", autoPlay |-> FALSE, maxRetries |-> 0,
          attempt |-> 0, dispatched |-> 0, lastError |-> "", delay |-> 0,
          debugMode |-> FALSE, fen |-> <<>>]

\* The record of the last operation: its name, its token argument, what it
\* returned (for a completion: whether it committed a move), whether it
\* completed a call whose object the store had replaced, and the failure it
\* ended in.  raised: an exception left the operation (for an asynchronous
\* operation: its promise rejected).
Ev(op, arg, ret, stale, err) ==
  [op |-> op, arg |-> arg, ret |-> ret, stale |-> stale, err |-> err,
   raised |-> FALSE]

Op(op, ret) == Ev(op, <<>>, ret, FALSE, "")

\* A Chess object nothing refers to any more is garbage.
Collect(h, g, keep) == IF keep THEN h ELSE [h EXCEPT ![g] = NewChess]

\* gameStore.ts 92-97, 107-109: the fields that are not persisted.
InitStore ==
  /\ game = 0
  /\ heap = [i \in Ids |-> NewChess]
  /\ fen = INITIAL_FEN
  /\ moveHistory = <<>>
  /\ currentTurn = "white"
  /\ status = "idle"
  /\ statusMessage = <<"Ready to play">>
  /\ isThinking = FALSE
  /\ thinkingPlayer = "null"
  /\ autoPlay = FALSE
  /\ req = [i \in Ids |-> NoReq]
  /\ timers = 0
  /\ debugLogs = <<>>

\* gameStore.ts 110: debug mode is off unless the user turned it on.
InitGame ==
  /\ InitStore
  /\ debugMode = FALSE
  /\ last = Op("init", FALSE)

Init ==
  /\ InitGame
  /\ whitePlayer = PersistedPlayer
  /\ blackPlayer = PersistedPlayer

\* ------------------------------------------------------------- operations
\* gameStore.ts 417: the number of entries addDebugLog keeps.
LogLimit == 100

\* A DebugEntry: its type and the start of its content.
Entry(type, content) == [type |-> type, content |-> content]

\* An addDebugLog that keeps the oldest entries: slice(0, 100).
addDebugLog_KeepsOldest(logs, entry) ==
  SubSeq(Append(logs, entry), 1,
         IF Len(logs) + 1 > LogLimit THEN LogLimit ELSE Len(logs) + 1)

\* gameStore.ts addDebugLog: [...state.debugLogs, entry].slice(-100)
addDebugLog(logs, entry) == sliceLast(Append(logs, entry), LogLimit)

\* addDebugLog called for each of the entries in turn.
RECURSIVE AddLogs(_, _)
AddLogs(logs, entries) ==
  IF entries = <<>> THEN logs
  ELSE AddLogs(addDebugLog(logs, Head(entries)), Tail(entries))

\* The operation logs the entries; the log is followed up to MaxLogs entries.
Logged(entries) ==
  /\ Len(debugLogs) + Len(entries) <= MaxLogs
  /\ debugLogs' = AddLogs(debugLogs, entries)
  /\ UNCHANGED debugMode

\* The entries an operation logs when the observer is on.
WhenOn(on, entries) == IF on THEN entries ELSE <<>>

\* Identities not referenced by the store or by a call in flight.
FreeIds == { i \in Ids : i # game /\ req[i].pc = "none" }

\* A store that clears and keeps the Chess object it has.
createGame_SameObject == game

\* chessEngine.ts createGame(): a new object, distinct from every live one.
createGame == CHOOSE i \in FreeIds : \A j \in FreeIds : i <= j

\* The heap after the store lets go of its object and takes the new one.
HeapAfterNew(newGame) ==
  [Collect(heap, game, req[game].pc # "none") EXCEPT ![newGame] = NewChess]

\* gameStore.ts startNewGame
StartNewGame ==
  /\ FreeIds # {}
  /\ LET newGame == createGame IN
     /\ game' = newGame
     /\ heap' = HeapAfterNew(newGame)
     /\ fen' = FenOf(NewChess)
  /\ moveHistory' = <<>>
  /\ currentTurn' = "white"
  /\ status' = "playing"
  /\ statusMessage' = <<"White to move">>
  /\ isThinking' = FALSE
  /\ thinkingPlayer' = "null"
  /\ autoPlay' = FALSE
  /\ last' = Op("startNewGame", TRUE)
  /\ UNCHANGED <<playerVars, req, timers, debugVars>>

\* gameStore.ts resetGame
ResetGame ==
  /\ FreeIds # {}
  /\ LET newGame == createGame IN
     /\ game' = newGame
     /\ heap' = HeapAfterNew(newGame)
     /\ fen' = FenOf(NewChess)
  /\ moveHistory' = <<>>
  /\ currentTurn' = "white"
  /\ status' = "idle"
  /\ statusMessage' = <<"Ready to play">>
  /\ isThinking' = FALSE
  /\ thinkingPlayer' = "null"
  /\ autoPlay' = FALSE
  /\ last' = Op("resetGame", TRUE)
  /\ UNCHANGED <<playerVars, req, timers, debugVars>>

\* The seat to move: currentTurn === 'white' ? whitePlayer : blackPlayer
SeatToMove == IF currentTurn = "white" THEN whitePlayer ELSE blackPlayer

\* A store that credits a checkmate to the side that is mated.
StatusAfter_LoserWins(gameStatus) ==
  IF gameStatus.isGameOver
    THEN IF gameStatus.winner = "white" THEN "black_wins"
         ELSE IF gameStatus.winner = "black" THEN "white_wins"
         ELSE "draw"
    ELSE "playing"

\* The status a committed move gives the game (gameStore.ts 158-163, 258-263).
StatusAfter(gameStatus) ==
  IF gameStatus.isGameOver
    THEN IF gameStatus.winner = "white" THEN "white_wins"
         ELSE IF gameStatus.winner = "black" THEN "black_wins"
         ELSE "draw"
    ELSE "playing"

\* A makeHumanMove without the test of status.
HumanMoveRefused_NoStatusGuard(uci) ==
  \/ SeatToMove.type # "human"
  \/ ~isLegalMove(heap[game], uci)

\* gameStore.ts makeHumanMove: the guards that make it return false before
\* it touches the game.
HumanMoveRefused(uci) ==
  \/ status # "playing"
  \/ SeatToMove.type # "human"
  \/ ~isLegalMove(heap[game], uci)

\* gameStore.ts makeHumanMove
MakeHumanMove(uci) ==
  LET mm == makeMove(heap[game], uci) IN
  IF HumanMoveRefused(uci)
    THEN /\ last' = Ev("makeHumanMove", uci, FALSE, FALSE, "")
         /\ UNCHANGED <<gameVars, statusMessage, playerVars, isThinking,
                        thinkingPlayer, autoPlay, req, timers, debugVars>>
    ELSE IF ~mm.ok
    THEN /\ last' = Ev("makeHumanMove", uci, FALSE, FALSE, "")
         /\ UNCHANGED <<gameVars, statusMessage, playerVars, isThinking,
                        thinkingPlayer, autoPlay, req, timers, debugVars>>
    ELSE LET gameStatus == getGameStatus(mm.game) IN
         /\ heap' = [heap EXCEPT ![game] = mm.game]
         /\ fen' = FenOf(mm.game)
         /\ moveHistory' = Append(moveHistory, mm.record)
         /\ currentTurn' = getCurrentTurn(mm.game)
         /\ status' = StatusAfter(gameStatus)
         /\ statusMessage' = gameStatus.status
         /\ Logged(WhenOn(debugMode, <<Entry("move", "Human played")>>))
         /\ last' = Ev("makeHumanMove", uci, TRUE, FALSE, "")
         /\ UNCHANGED <<game, playerVars, isThinking, thinkingPlayer,
                        autoPlay, req, timers>>

\* A requestAIMove whose try block ends with the await.
InTry_AwaitOnly(point) == point = "await"

\* gameStore.ts 226-301: the try block of requestAIMove encloses the await of
\* requestLLMMove and the validation of the move.
InTry(point) == point \in {"await", "validate"}

\* A loop that tests its condition after its body.
LoopRuns_TestedAfter(config) == TRUE

\* index.ts 63: attempt <= config.maxRetries, read with attempt = 1 when the
\* loop is entered.
LoopRuns(config) == 1 <= config.maxRetries

\* A requestAIMove that does not test isThinking.
RequestRefused_NoThinkingGuard == status # "playing"

\* gameStore.ts 201: status !== 'playing' || get().isThinking
RequestRefused == status # "playing" \/ isThinking

\* A requestAIMove that dispatches whatever the key is.
MissingKey_Ignored(config) == FALSE

\* gameStore.ts 213: !playerConfig.llmConfig.apiKey
MissingKey(config) == config.apiKey = ""

\* gameStore.ts requestAIMove, up to the await: the store fields it sets, for
\* ap the value of autoPlay it reads.  started: the call reached
\* requestLLMMove.  With maxRetries < 1 the loop body never runs and
\* requestLLMMove rejects at once; the catch block then runs before any other
\* task, so its effect belongs to the same step.
RequestAIMoveResult(ap) ==
  LET playerConfig == SeatToMove
      config == playerConfig.llmConfig
      same == [status |-> status, statusMessage |-> statusMessage,
               isThinking |-> isThinking, thinkingPlayer |-> thinkingPlayer,
               autoPlay |-> ap, req |-> req, started |-> FALSE, dispatched |-> 0,
               err |-> "", raised |-> FALSE, logs |-> <<>>]
      prompt == Entry("prompt", "[System]")
      failed == Entry("error", "AI failed")
  IN  IF RequestRefused THEN same
      ELSE IF playerConfig.type # "ai" THEN same
      ELSE IF MissingKey(config)
        THEN [same EXCEPT !.statusMessage = <<"AI needs an API key", currentTurn>>,
                          !.err = "no_api_key"]
      ELSE IF ~LoopRuns(config)
        THEN IF InTry("await")
               THEN [same EXCEPT !.isThinking = FALSE,
                                 !.thinkingPlayer = "null",
                                 !.status = "ai_error",
                                 !.statusMessage = <<"AI Error", "Failed to get move from LLM">>,
                                 !.autoPlay = FALSE,
                                 !.started = TRUE,
                                 !.err = "Failed to get move from LLM",
                                 !.logs = WhenOn(debugMode, <<prompt, failed>>)]
               ELSE [same EXCEPT !.isThinking = TRUE,
                                 !.thinkingPlayer = currentTurn,
                                 !.statusMessage = <<"AI is thinking...", currentTurn>>,
                                 !.started = TRUE,
                                 !.err = "Failed to get move from LLM",
                                 !.raised = TRUE,
                                 !.logs = WhenOn(debugMode, <<prompt>>)]
      ELSE [same EXCEPT !.isThinking = TRUE,
                        !.thinkingPlayer = currentTurn,
                        !.statusMessage = <<"AI is thinking...", currentTurn>>,
                        !.started = TRUE,
                        !.dispatched = 1,
                        !.logs = WhenOn(debugMode, <<prompt>>),
                        !.req = [req EXCEPT ![game] =
                                   [pc |-> "fetch", autoPlay |-> ap,
                                    maxRetries |-> config.maxRetries,
                                    attempt |-> 1, dispatched |-> 1,
                                    lastError |-> "", delay |-> 0,
                                    debugMode |-> debugMode,
                                    fen |-> FenOf(heap[game])]]]

\* The store after a call of requestAIMove that read autoPlay = ap.
ApplyRequest(r) ==
  /\ status' = r.status
  /\ statusMessage' = r.statusMessage
  /\ isThinking' = r.isThinking
  /\ thinkingPlayer' = r.thinkingPlayer
  /\ autoPlay' = r.autoPlay
  /\ req' = r.req
  /\ Logged(r.logs)
  /\ UNCHANGED <<game, heap, fen, moveHistory, currentTurn, playerVars>>

\* gameStore.ts requestAIMove, called by the user interface
RequestAIMove ==
  LET r == RequestAIMoveResult(autoPlay) IN
  /\ ApplyRequest(r)
  /\ last' = [Ev("requestAIMove", <<>>, r.started, FALSE, r.err)
                EXCEPT !.raised = r.raised]
  /\ UNCHANGED timers

\* gameStore.ts toggleAutoPlay
ToggleAutoPlay ==
  IF autoPlay
    THEN /\ autoPlay' = FALSE
         /\ last' = Op("toggleAutoPlay", FALSE)
         /\ UNCHANGED <<gameVars, statusMessage, playerVars, isThinking,
                        thinkingPlayer, req, timers, debugVars>>
    ELSE IF status = "playing"
    THEN LET r == RequestAIMoveResult(TRUE) IN
         /\ ApplyRequest(r)
         /\ last' = [Ev("toggleAutoPlay", <<>>, r.started, FALSE, r.err)
                       EXCEPT !.raised = r.raised]
         /\ UNCHANGED timers
    ELSE /\ autoPlay' = TRUE
         /\ last' = Op("toggleAutoPlay", FALSE)
         /\ UNCHANGED <<gameVars, statusMessage, playerVars, isThinking,
                        thinkingPlayer, req, timers, debugVars>>

\* gameStore.ts stopAutoPlay
StopAutoPlay ==
  /\ autoPlay' = FALSE
  /\ last' = Op("stopAutoPlay", FALSE)
  /\ UNCHANGED <<gameVars, statusMessage, playerVars, isThinking,
                 thinkingPlayer, req, timers, debugVars>>

\* gameStore.ts setWhitePlayer / setBlackPlayer: the merged configuration.
MergePlayer(player, config) ==
  [Spread(player, config) EXCEPT !.llmConfig =
     IF "llmConfig" \in DOMAIN config
       THEN Spread(player.llmConfig, config.llmConfig)
       ELSE player.llmConfig]

\* gameStore.ts setWhitePlayer
SetWhitePlayer(config) ==
  /\ whitePlayer' = MergePlayer(whitePlayer, config)
  /\ last' = Op("setWhitePlayer", FALSE)
  /\ UNCHANGED <<gameVars, statusMessage, blackPlayer, isThinking,
                 thinkingPlayer, autoPlay, req, timers, debugVars>>

\* gameStore.ts setBlackPlayer
SetBlackPlayer(config) ==
  /\ blackPlayer' = MergePlayer(blackPlayer, config)
  /\ last' = Op("setBlackPlayer", FALSE)
  /\ UNCHANGED <<gameVars, statusMessage, whitePlayer, isThinking,
                 thinkingPlayer, autoPlay, req, timers, debugVars>>

\* -------------------------------------------- completion of a request
\* A requestAIMove without the identity test after the await.
StaleOnReturn_Skipped(g) == FALSE

\* gameStore.ts 240: get().game !== gameRef, read when requestLLMMove returns.
StaleOnReturn(g) == game # g

\* gameStore.ts 267: state.game !== gameRef inside the set() that commits.
StaleOnCommit(g) == game # g

\* A catch block without the identity test.
StaleOnCatch_Skipped(g) == FALSE

\* gameStore.ts 306: state.game !== gameRef inside the set() of the catch block.
StaleOnCatch(g) == game # g

\* Math.pow(b, n) for a natural n.
RECURSIVE Pow(_, _)
Pow(b, n) == IF n = 0 THEN 1 ELSE b * Pow(b, n - 1)

\* index.ts 119: the factor of the wait between attempts, in milliseconds.
BackoffBase == 500

\* A loop that counts its attempts from zero when it computes the wait.
BackoffDelay_ZeroBased(attempt) == Pow(2, attempt - 1) * BackoffBase

\* index.ts 119: Math.pow(2, attempt) * 500
BackoffDelay(attempt) == Pow(2, attempt) * BackoffBase

\* A loop that gives up one attempt early.
LastAttempt_OneEarly(r) == r.attempt + 1 >= r.maxRetries

\* index.ts 115: attempt === config.maxRetries
LastAttempt(r) == r.attempt = r.maxRetries

\* A loop whose try block ends before the response is parsed: a response from
\* which no move can be extracted escapes the loop.
Caught_ParseOutsideTry(kind) == kind # "no_move"

\* index.ts 64-103: every failure of an attempt is thrown inside the try block
\* of the loop body (fetch 67, the test of response.ok 73-87, response.json 89,
\* parseResponse 90) and lands in its catch clause.
Caught(kind) == kind \in AllErrorKinds

\* A timer callback that goes by the values its request captured before the
\* delay: the timer was only set because they were true.
TimerProceeds_Captured == TRUE

\* gameStore.ts 296: the test the timer callback makes when it fires.
TimerProceeds == autoPlay /\ status = "playing"

\* The call on object g has finished: its reference to g is gone.
Finish(h, g) == Collect(h, g, g = game)

\* A requestAIMove that logs its outcome whatever the store's game is.
LogGuard_Always(g) == TRUE

\* gameStore.ts 280, 316: get().game === gameRef, read before the outcome of
\* the call is logged.
LogGuard(g) == game = g

\* gameStore.ts 301-314: the catch block of requestAIMove.
CatchBlock(g, errorMessage) ==
  IF StaleOnCatch(g)
    THEN UNCHANGED <<isThinking, thinkingPlayer, status, statusMessage, autoPlay>>
    ELSE /\ isThinking' = FALSE
         /\ thinkingPlayer' = "null"
         /\ status' = "ai_error"
         /\ statusMessage' = <<"AI Error", errorMessage>>
         /\ autoPlay' = FALSE

\* An exception is thrown in requestAIMove at point "await" (requestLLMMove
\* rejects, 229) or "validate" (the throw statements of 246 and 251): inside
\* the try block the catch block runs, outside it no field is set.
Thrown(g, point, errorMessage) ==
  IF InTry(point)
    THEN CatchBlock(g, errorMessage)
    ELSE UNCHANGED <<isThinking, thinkingPlayer, status, statusMessage, autoPlay>>

\* The record of an operation in which an exception was thrown at point: it
\* leaves the operation when no try block encloses the point.
Raised(ev, point) == [ev EXCEPT !.raised = ~InTry(point)]

\* index.ts 89-102 and gameStore.ts 238-300: the attempt in flight for the call
\* on object g gets a response from which a move is parsed; requestLLMMove
\* returns it and requestAIMove resumes.
AttemptSucceeds(g, move) ==
  LET r  == req[g]
      mm == makeMove(heap[g], move)
      gameStatus == getGameStatus(mm.game)
      newStatus  == StatusAfter(gameStatus)
      schedules  == r.autoPlay /\ newStatus = "playing"
      outcome    == IF StaleOnReturn(g) THEN <<>>
                    ELSE IF ~isLegalMove(heap[g], move) \/ ~mm.ok
                      THEN WhenOn(InTry("validate") /\ LogGuard(g),
                                  <<Entry("error", "AI failed")>>)
                    ELSE WhenOn(LogGuard(g), <<Entry("move", "AI played")>>)
  IN
  /\ r.pc = "fetch"
  /\ req' = [req EXCEPT ![g] = NoReq]
  /\ Logged(WhenOn(r.debugMode, <<Entry("response", "Move")>> \o outcome))
  /\ UNCHANGED <<game, playerVars>>
  /\ IF StaleOnReturn(g)
       THEN /\ heap' = Finish(heap, g)
            /\ last' = Ev("aiResolved", move, FALSE, game # g, "")
            /\ UNCHANGED <<fen, moveHistory, currentTurn, status, statusMessage,
                           isThinking, thinkingPlayer, autoPlay, timers>>
     ELSE IF ~isLegalMove(heap[g], move)
       THEN /\ Thrown(g, "validate", "Illegal move from AI")
            /\ heap' = Finish(heap, g)
            /\ last' = Raised(Ev("aiResolved", move, FALSE, game # g,
                                 "Illegal move from AI"), "validate")
            /\ UNCHANGED <<fen, moveHistory, currentTurn, timers>>
     ELSE IF ~mm.ok
       THEN /\ Thrown(g, "validate", "Failed to make move")
            /\ heap' = Finish(heap, g)
            /\ last' = Raised(Ev("aiResolved", move, FALSE, game # g,
                                 "Failed to make move"), "validate")
            /\ UNCHANGED <<fen, moveHistory, currentTurn, timers>>
     ELSE /\ schedules => timers < MaxTimers
          /\ heap' = Finish([heap EXCEPT ![g] = mm.game], g)
          /\ IF StaleOnCommit(g)
               THEN UNCHANGED <<fen, moveHistory, currentTurn, status, statusMessage,
                                isThinking, thinkingPlayer>>
               ELSE /\ fen' = FenOf(mm.game)
                    /\ moveHistory' = Append(moveHistory, mm.record)
                    /\ currentTurn' = getCurrentTurn(mm.game)
                    /\ status' = newStatus
                    /\ statusMessage' = gameStatus.status
                    /\ isThinking' = FALSE
                    /\ thinkingPlayer' = "null"
          /\ timers' = IF schedules THEN timers + 1 ELSE timers
          /\ last' = Ev("aiResolved", move, ~StaleOnCommit(g), game # g, "")
          /\ UNCHANGED autoPlay

\* index.ts 103-120 and gameStore.ts 301-314: the attempt in flight for the call
\* on object g fails.  On the last attempt requestLLMMove throws lastError and
\* the catch block of requestAIMove runs; otherwise the loop waits.
AttemptFails(g, kind) ==
  LET r == req[g]
      attemptLog == WhenOn(Caught(kind), <<Entry("error", "Attempt")>>)
      outcome    == WhenOn(/\ LastAttempt(r) \/ ~Caught(kind)
                           /\ InTry("await")
                           /\ LogGuard(g),
                           <<Entry("error", "AI failed")>>)
  IN
  /\ r.pc = "fetch"
  /\ Logged(WhenOn(r.debugMode, attemptLog \o outcome))
  /\ UNCHANGED <<game, fen, moveHistory, currentTurn, playerVars, timers>>
  /\ IF LastAttempt(r) \/ ~Caught(kind)
       THEN /\ req' = [req EXCEPT ![g] = NoReq]
            /\ heap' = Finish(heap, g)
            /\ Thrown(g, "await", kind)
            /\ last' = Raised(Ev("aiRejected", <<>>, FALSE, game # g, kind), "await")
       ELSE /\ req' = [req EXCEPT ![g] = [r EXCEPT !.pc = "backoff",
                                                   !.lastError = kind,
                                                   !.delay = BackoffDelay(r.attempt)]]
            /\ last' = Ev("attemptFailed", <<>>, FALSE, FALSE, kind)
            /\ UNCHANGED <<heap, isThinking, thinkingPlayer, status, statusMessage,
                           autoPlay>>

\* index.ts 119, 63-67: the back-off delay ends and the next attempt is sent.
BackoffDone(g) ==
  LET r == req[g] IN
  /\ r.pc = "backoff"
  /\ req' = [req EXCEPT ![g] = [r EXCEPT !.pc = "fetch",
                                         !.attempt = r.attempt + 1,
                                         !.dispatched = r.dispatched + 1]]
  /\ last' = Op("backoffDone", FALSE)
  /\ UNCHANGED <<gameVars, statusMessage, playerVars, isThinking, thinkingPlayer,
                 autoPlay, timers, debugVars>>

\* gameStore.ts 295-299: an auto-play timer fires.
TimerFires ==
  /\ timers > 0
  /\ timers' = timers - 1
  /\ IF TimerProceeds
       THEN LET r == RequestAIMoveResult(autoPlay) IN
            /\ ApplyRequest(r)
            /\ last' = [Ev("timer", <<>>, TRUE, FALSE, r.err)
                          EXCEPT !.raised = r.raised]
       ELSE /\ last' = Op("timer", FALSE)
            /\ UNCHANGED <<gameVars, statusMessage, playerVars, isThinking,
                           thinkingPlayer, autoPlay, req, debugVars>>

Next ==
  \/ StartNewGame
  \/ ResetGame
  \/ \E uci \in HumanInputs : MakeHumanMove(uci)
  \/ RequestAIMove
  \/ ToggleAutoPlay
  \/ StopAutoPlay
  \/ \E config \in PartialConfigs : SetWhitePlayer(config)
  \/ \E config \in PartialConfigs : SetBlackPlayer(config)
  \/ \E g \in Ids, move \in AiMoves : AttemptSucceeds(g, move)
  \/ \E g \in Ids, kind \in ErrorKinds : AttemptFails(g, kind)
  \/ \E g \in Ids : BackoffDone(g)
  \/ TimerFires

Spec == Init /\ [][Next]_vars

\* Two people at the board: the operations of a game between human seats,
\* with every token, and the changes of a seat's type.
NextHuman ==
  \/ StartNewGame
  \/ ResetGame
  \/ \E uci \in AllTokens : MakeHumanMove(uci)
  \/ \E config \in PartialConfigs : SetWhitePlayer(config)
  \/ \E config \in PartialConfigs : SetBlackPlayer(config)

SpecHuman == Init /\ [][NextHuman]_vars

\* The request loop by itself: a seat is given a key and a retry limit, a
\* game is started, moves are requested, and every attempt can end in each
\* way.
NextPipeline ==
  \/ StartNewGame
  \/ RequestAIMove
  \/ \E g \in Ids, move \in PipelineMoves : AttemptSucceeds(g, move)
  \/ \E g \in Ids, kind \in AllErrorKinds : AttemptFails(g, kind)
  \/ \E g \in Ids : BackoffDone(g)

\* The argument that makes a seat an AI whose key has not been entered.
AiWithoutKey == [type |-> "ai", llmConfig |-> [apiKey |-> ""]]

\* The store as constructed when the persisted white seat is an AI with a key
\* and some retry limit, and the black seat a human or an AI without a key.
InitPipeline ==
  /\ InitGame
  /\ whitePlayer \in { MergePlayer(PersistedPlayer, config) : config \in RetryConfigs }
  /\ blackPlayer \in { PersistedPlayer, MergePlayer(PersistedPlayer, AiWithoutKey) }

SpecPipeline == InitPipeline /\ [][NextPipeline]_vars

\* Two AI seats left to themselves: games are started and reset, moves are
\* requested by hand and by auto-play, attempts succeed and fail, timers fire.
NextAi ==
  \/ StartNewGame
  \/ ResetGame
  \/ RequestAIMove
  \/ ToggleAutoPlay
  \/ StopAutoPlay
  \/ \E g \in Ids, move \in AiMoves : AttemptSucceeds(g, move)
  \/ \E g \in Ids, kind \in ErrorKinds : AttemptFails(g, kind)
  \/ \E g \in Ids : BackoffDone(g)
  \/ TimerFires

\* The store as constructed when both persisted seats are AIs with a key.
InitAi ==
  /\ InitGame
  /\ whitePlayer = MergePlayer(PersistedPlayer, AiWithKey)
  /\ blackPlayer = MergePlayer(PersistedPlayer, AiWithKey)

SpecAi == InitAi /\ [][NextAi]_vars

\* Arguments that make a seat an AI with a key and a retry limit, when the
\* waits between attempts are followed.
WaitConfigs ==
  { [type |-> "ai", llmConfig |-> [apiKey |-> "sk", maxRetries |-> n]] :
      n \in 1..MaxWaitRetries }

\* The request loop when every attempt fails or is answered with white's
\* first move.
NextBackoff ==
  \/ StartNewGame
  \/ RequestAIMove
  \/ \E g \in Ids : AttemptSucceeds(g, T4("e","2","e","4"))
  \/ \E g \in Ids, kind \in ErrorKinds : AttemptFails(g, kind)
  \/ \E g \in Ids : BackoffDone(g)

\* The store as constructed when the persisted white seat is an AI with a key
\* and a retry limit of up to MaxWaitRetries.
InitBackoff ==
  /\ InitGame
  /\ whitePlayer \in { MergePlayer(PersistedPlayer, config) : config \in WaitConfigs }
  /\ blackPlayer = PersistedPlayer

SpecBackoff == InitBackoff /\ [][NextBackoff]_vars

\* The call on object g moves on: its attempt in flight ends one way or the
\* other, or its wait ends.
Completion(g) ==
  \/ \E move \in AiMoves : AttemptSucceeds(g, move)
  \/ \E kind \in ErrorKinds : AttemptFails(g, kind)
  \/ BackoffDone(g)

\* Two AI seats left to themselves when time passes: a timer that has been set
\* fires (gameStore.ts 295, index.ts 119) and a fetch that has been sent
\* settles (index.ts 67).  Nothing obliges the user to act.
SpecAiFair ==
  /\ SpecAi
  /\ WF_vars(TimerFires)
  /\ \A g \in Ids : WF_vars(Completion(g))

\* A game played to its end by a human against an AI: every token is tried as
\* a human move and as a provider's answer.
NextPlay ==
  \/ StartNewGame
  \/ \E uci \in AllTokens : MakeHumanMove(uci)
  \/ RequestAIMove
  \/ \E g \in Ids, move \in AllTokens : AttemptSucceeds(g, move)

\* The store as constructed with one persisted seat a human and the other an
\* AI with a key.
InitPlay ==
  /\ InitGame
  /\ \/ /\ whitePlayer = MergePlayer(PersistedPlayer, AiWithKey)
        /\ blackPlayer = PersistedPlayer
     \/ /\ whitePlayer = PersistedPlayer
        /\ blackPlayer = MergePlayer(PersistedPlayer, AiWithKey)

SpecPlay == InitPlay /\ [][NextPlay]_vars

\* Arguments of setWhitePlayer that change the seat's type and nothing else.
SeatTypes == { [type |-> "human"], [type |-> "ai"] }

\* Tokens of the shortest game the oracle lets white win.
ShortGame == { T4("e","2","e","4"), T4("f","7","f","6"), T5("a","7","a","8","q") }

\* A short game between an AI and a human in which auto-play is switched on
\* and the white seat changes hands: the moves of the shortest game are tried
\* as human moves and as the provider's answers.
NextMixed ==
  \/ StartNewGame
  \/ \E uci \in ShortGame : MakeHumanMove(uci)
  \/ RequestAIMove
  \/ ToggleAutoPlay
  \/ \E config \in SeatTypes : SetWhitePlayer(config)
  \/ \E g \in Ids, move \in ShortGame : AttemptSucceeds(g, move)
  \/ TimerFires

\* The store as constructed when the persisted white seat is an AI with a key
\* and the black seat a human.
InitMixed ==
  /\ InitGame
  /\ whitePlayer = MergePlayer(PersistedPlayer, AiWithKey)
  /\ blackPlayer = PersistedPlayer

SpecMixed == InitMixed /\ [][NextMixed]_vars

\* Requests left to run: games are started and moves requested, and every
\* call in flight moves on.
NextRequests ==
  \/ StartNewGame
  \/ RequestAIMove
  \/ \E g \in Ids : Completion(g)

\* The requests of a white AI when time passes: a fetch that has been sent
\* settles (index.ts 67) and a wait between attempts ends (index.ts 119).
\* Nothing obliges the user to act.
SpecRequestsFair ==
  /\ InitMixed
  /\ [][NextRequests]_vars
  /\ \A g \in Ids : WF_vars(Completion(g))

\* gameStore.ts toggleDebugMode
ToggleDebugMode ==
  /\ debugMode' = ~debugMode
  /\ last' = Op("toggleDebugMode", FALSE)
  /\ UNCHANGED <<gameVars, statusMessage, playerVars, isThinking,
                 thinkingPlayer, autoPlay, req, timers, debugLogs>>

\* gameStore.ts clearDebugLogs
ClearDebugLogs ==
  /\ debugLogs' = <<>>
  /\ last' = Op("clearDebugLogs", FALSE)
  /\ UNCHANGED <<gameVars, statusMessage, playerVars, isThinking,
                 thinkingPlayer, autoPlay, req, timers, debugMode>>

\* gameStore.ts addDebugLog, called with an entry that carries its number:
\* one more than the newest entry in the log has, and 1 for an empty log.
AddDebugLog ==
  LET serial == IF debugLogs = <<>> THEN 1
                ELSE debugLogs[Len(debugLogs)].content + 1
  IN  /\ serial <= LogLimit + MaxOverflow
      /\ debugLogs' = addDebugLog(debugLogs, Entry("move", serial))
      /\ last' = Ev("addDebugLog", serial, FALSE, FALSE, "")
      /\ UNCHANGED <<gameVars, statusMessage, playerVars, isThinking,
                     thinkingPlayer, autoPlay, req, timers, debugMode>>

\* The debug panel filled beyond its limit: entries are added and cleared
\* while games are started and debug mode is switched.
NextLogs ==
  \/ StartNewGame
  \/ AddDebugLog
  \/ ClearDebugLogs
  \/ ToggleDebugMode

SpecLogs == Init /\ [][NextLogs]_vars

\* A white AI and a black human with the debug panel in use: games are
\* started, moves are requested, attempts end in each way, debug mode is
\* switched and the log is cleared.
NextDebug ==
  \/ StartNewGame
  \/ RequestAIMove
  \/ \E g \in Ids, move \in AiMoves : AttemptSucceeds(g, move)
  \/ \E g \in Ids, kind \in ErrorKinds : AttemptFails(g, kind)
  \/ ToggleDebugMode
  \/ ClearDebugLogs

\* The argument that makes a seat an AI with a key and a single attempt.
AiOneAttempt == [type |-> "ai", llmConfig |-> [apiKey |-> "sk", maxRetries |-> 1]]

\* gameStore.ts 462-471: debugMode is persisted with the seats.
InitDebug ==
  /\ InitStore
  /\ debugMode \in BOOLEAN
  /\ last = Op("init", FALSE)
  /\ whitePlayer = MergePlayer(PersistedPlayer, AiOneAttempt)
  /\ blackPlayer = PersistedPlayer

SpecDebug == InitDebug /\ [][NextDebug]_vars

\* What the caller of the session sees: a white AI with a key and a black
\* seat that is a human or an AI without a key; games are started, moves are
\* entered by hand and requested, attempts end in each way.
NextSession ==
  \/ StartNewGame
  \/ \E uci \in PipelineMoves : MakeHumanMove(uci)
  \/ RequestAIMove
  \/ \E g \in Ids, move \in AiMoves : AttemptSucceeds(g, move)
  \/ \E g \in Ids, kind \in ErrorKinds : AttemptFails(g, kind)
  \/ \E g \in Ids : BackoffDone(g)

InitSession ==
  /\ InitGame
  /\ whitePlayer = MergePlayer(PersistedPlayer, AiWithKey)
  /\ blackPlayer \in { PersistedPlayer, MergePlayer(PersistedPlayer, AiWithoutKey) }

SpecSession == InitSession /\ [][NextSession]_vars

\* ------------------------------------------------ prompt.ts: extraction
\* Strings are sequences of one-character strings.
\* The letters that occur in the strings tried, in upper and in lower case.
UpperLetters == <<"A", "B", "C", "D", "E", "F", "G", "H", "N", "Q", "R">>
LowerLetters == <<"a", "b", "c", "d", "e", "f", "g", "h", "n", "q", "r">>

\* String.prototype.toLowerCase, character by character.
LowerChar(c) ==
  IF \E i \in DOMAIN UpperLetters : UpperLetters[i] = c
    THEN LowerLetters[CHOOSE i \in DOMAIN UpperLetters : UpperLetters[i] = c]
    ELSE c

toLowerCase(str) == [i \in DOMAIN str |-> LowerChar(str[i])]

\* String.prototype.trim for strings padded with spaces.
RECURSIVE trimStart(_)
trimStart(str) ==
  IF str # <<>> /\ Head(str) = " " THEN trimStart(Tail(str)) ELSE str

RECURSIVE trimEnd(_)
trimEnd(str) ==
  IF str # <<>> /\ str[Len(str)] = " "
    THEN trimEnd(SubSeq(str, 1, Len(str) - 1))
    ELSE str

trim(str) == trimEnd(trimStart(str))

\* The character classes of the patterns: [a-h], [1-8], [qrbn].
FileChars  == {"a", "b", "c", "d", "e", "f", "g", "h"}
RankChars  == {"1", "2", "3", "4", "5", "6", "7", "8"}
PromoChars == {"q", "r", "b", "n"}

\* The first four characters of str are [a-h][1-8][a-h][1-8].
StartsWithSquares(str) ==
  /\ Len(str) >= 4
  /\ str[1] \in FileChars /\ str[2] \in RankChars
  /\ str[3] \in FileChars /\ str[4] \in RankChars

\* An isValidUciMove that accepts every string.
isValidUciMove_Anything(move) == TRUE

\* prompt.ts isValidUciMove: /^[a-h][1-8][a-h][1-8][qrbn]?$/
isValidUciMove(move) ==
  /\ StartsWithSquares(move)
  /\ \/ Len(move) = 4
     \/ Len(move) = 5 /\ move[5] \in PromoChars

\* The whole of str matches [a-h][1-8][a-h][1-8][qrbn]? under the i flag.
MatchesToken(str) ==
  LET low == toLowerCase(str) IN
  /\ StartsWithSquares(low)
  /\ \/ Len(low) = 4
     \/ Len(low) = 5 /\ low[5] \in PromoChars

\* What ([a-h][1-8][a-h][1-8][qrbn]?) captures at the start of str under the i
\* flag when nothing has to follow it (<<>>: no match).
CapturePrefix(str) ==
  LET low == toLowerCase(str) IN
  IF ~StartsWithSquares(low) THEN <<>>
  ELSE IF Len(low) >= 5 /\ low[5] \in PromoChars THEN SubSeq(str, 1, 5)
  ELSE SubSeq(str, 1, 4)

\* null
NoMove == <<>>

\* A response text is a sequence of pieces separated by prose without
\* letters or digits of interest.  A piece is
\*   fenced  a ```json block; moves: the values written for "move" in it, in
\*           order; json: whether JSON.parse accepts the body ("ok"), accepts
\*           the braces but not the body around them ("wrapped"), or rejects
\*           it ("broken"); nested: an inner object follows the move
\*   inline  the same object outside a fence
\*   prop    "move": "..." outside braces
\*   phrase  a lead-in phrase followed by word
\*   word    a run of letters and digits between non-word characters
\*   prose   text in which no pattern matches
Piece(kind, json, nested, moves, lead, word) ==
  [kind |-> kind, json |-> json, nested |-> nested, moves |-> moves,
   lead |-> lead, word |-> word]

Fenced(json, nested, moves) == Piece("fenced", json, nested, moves, "", <<>>)
Inline(json, nested, moves) == Piece("inline", json, nested, moves, "", <<>>)
Prop(move)                  == Piece("prop", "none", FALSE, <<move>>, "", <<>>)
Phrase(lead, word)          == Piece("phrase", "none", FALSE, <<>>, lead, word)
Word(word)                  == Piece("word", "none", FALSE, <<>>, "", word)
Prose                       == Piece("prose", "none", FALSE, <<>>, "", <<>>)

\* The strings written as moves in the pieces tried.
e2e4    == <<"e", "2", "e", "4">>
g1f3    == <<"g", "1", "f", "3">>
G1F3    == <<"G", "1", "F", "3">>
e7e8q   == <<"e", "7", "e", "8", "q">>
E7E8Q   == <<"E", "7", "E", "8", "Q">>
padded  == <<" ", "e", "7", "e", "8", "q", " ">>
castle  == <<"c", "a", "s", "t", "l", "e">>
zz      == <<"z", "z">>
e2e4now == <<"e", "2", "e", "4", "n", "o", "w">>
e2e4e5  == <<"e", "2", "e", "4", "e", "5">>

\* The pieces tried.
Pieces ==
  { Fenced("ok", FALSE, <<e2e4>>),        \* ```json {"move": "e2e4", ...} ```
    Fenced("ok", FALSE, <<G1F3>>),        \* ```json {"move": "G1F3"} ```
    Fenced("ok", FALSE, <<padded>>),      \* ```json {"move": " e7e8q "} ```
    Fenced("ok", FALSE, <<castle>>),      \* ```json {"move": "castle"} ```
    Fenced("broken", FALSE, <<e2e4>>),    \* ```json {"move": "e2e4",} ```
    Fenced("wrapped", FALSE, <<g1f3>>),   \* ```json Answer: {"move": "g1f3"} ```
    Fenced("ok", FALSE, <<>>),            \* ```json {"explanation": "..."} ```
    Fenced("ok", TRUE, <<e7e8q>>),        \* ```json {"move": "e7e8q", "eval": {"cp": 30}} ```
    Inline("ok", FALSE, <<g1f3>>),        \* {"move": "g1f3"}
    Inline("broken", FALSE, <<E7E8Q>>),   \* {'why': 'x', "move": "E7E8Q"}
    Inline("ok", FALSE, <<e2e4, zz>>),    \* {"move": "e2e4", "move": "zz"}
    Inline("ok", FALSE, <<castle>>),      \* {"move": "castle"}
    Prop(e7e8q),                          \* "move": "e7e8q"
    Phrase("my move is", g1f3),           \* My move is g1f3
    Phrase("therefore, i play", e2e4now), \* Therefore, I play e2e4now
    Word(e2e4),                           \* e2e4
    Word(G1F3),                           \* G1F3
    Word(e2e4e5),                         \* e2e4e5
    Word(e7e8q),                          \* e7e8q
    Prose }

\* The response texts tried.
Texts == UNION { [1..n -> Pieces] : n \in 0..MaxItems }

\* String.prototype.match without the g flag takes the first match: the
\* index of the first TRUE in a sequence of truth values (0: none).
FirstMatch(found) ==
  IF \E i \in DOMAIN found : found[i]
    THEN CHOOSE i \in DOMAIN found :
           found[i] /\ \A j \in DOMAIN found : found[j] => i <= j
    ELSE 0

\* JSON.parse(...).move: the last of the values written for the key.
ParsedMove(piece) ==
  IF piece.moves = <<>> THEN Undefined ELSE piece.moves[Len(piece.moves)]

\* The values of a piece that stand as "move": "<token>" in the text.
LiteralMoves(piece) == SelectSeq(piece.moves, MatchesToken)

\* prompt.ts 62-78: the first fenced block, parsed.
FencedBlock(text) ==
  LET IsFenced(piece) == piece.kind = "fenced"
      i == FirstMatch([k \in DOMAIN text |-> IsFenced(text[k])])
  IN  IF i = 0 THEN NoMove
      ELSE IF text[i].json # "ok" THEN NoMove
      ELSE IF ParsedMove(text[i]) = Undefined THEN NoMove
      ELSE LET move == trim(toLowerCase(ParsedMove(text[i]))) IN
           IF isValidUciMove(move) THEN move ELSE NoMove

\* prompt.ts 81-100: the first flat object holding "move": "<token>".  The
\* pattern takes the last such pair of the object; when JSON.parse rejects
\* the object the captured token is returned.
JsonObject(text) ==
  LET IsMatch(piece) == /\ piece.kind \in {"fenced", "inline"}
                        /\ ~piece.nested
                        /\ LiteralMoves(piece) # <<>>
      i == FirstMatch([k \in DOMAIN text |-> IsMatch(text[k])])
  IN  IF i = 0 THEN NoMove
      ELSE LET literal == LiteralMoves(text[i])
               capture == literal[Len(literal)]
           IN  IF text[i].json = "broken" THEN toLowerCase(capture)
               ELSE LET move == trim(toLowerCase(ParsedMove(text[i]))) IN
                    IF isValidUciMove(move) THEN move ELSE NoMove

\* prompt.ts 103-106: the first "move": "<token>" anywhere in the text.
MoveProperty(text) ==
  LET IsMatch(piece) == LiteralMoves(piece) # <<>>
      i == FirstMatch([k \in DOMAIN text |-> IsMatch(text[k])])
  IN  IF i = 0 THEN NoMove ELSE toLowerCase(Head(LiteralMoves(text[i])))

\* prompt.ts 109-119: the two phrase patterns, tried in turn on the whole
\* text.  The words of the second pattern end in words of the first.
PhrasePattern(text, leads) ==
  LET IsMatch(piece) == /\ piece.kind = "phrase"
                        /\ piece.lead \in leads
                        /\ CapturePrefix(piece.word) # <<>>
      i == FirstMatch([k \in DOMAIN text |-> IsMatch(text[k])])
  IN  IF i = 0 THEN NoMove ELSE toLowerCase(CapturePrefix(text[i].word))

ExplicitPhrase(text) ==
  LET first == PhrasePattern(text, {"my move is", "therefore, i play"}) IN
  IF first # NoMove THEN first
  ELSE PhrasePattern(text, {"therefore, i play"})

\* The matches of /\b[a-h][1-8][a-h][1-8][qrbn]?\b/gi in a piece, in order.
BareTokens(piece) ==
  IF piece.kind \in {"phrase", "word"}
    THEN IF MatchesToken(piece.word) THEN <<piece.word>> ELSE <<>>
    ELSE LET Bare(move) == MatchesToken(trim(move)) IN
         [i \in DOMAIN SelectSeq(piece.moves, Bare) |->
            trim(SelectSeq(piece.moves, Bare)[i])]

RECURSIVE AllBareTokens(_)
AllBareTokens(text) ==
  IF text = <<>> THEN <<>>
  ELSE BareTokens(Head(text)) \o AllBareTokens(Tail(text))

\* An extractor that takes the first bare token of the text.
PickMention_First(allUciMoves) == Head(allUciMoves)

\* prompt.ts 126: allUciMoves[allUciMoves.length - 1]
PickMention(allUciMoves) == allUciMoves[Len(allUciMoves)]

\* prompt.ts 123-127: the last bare token of the text.
LastMention(text) ==
  LET allUciMoves == AllBareTokens(text) IN
  IF allUciMoves = <<>> THEN NoMove ELSE toLowerCase(PickMention(allUciMoves))

\* prompt.ts extractMoveFromResponse: the move of the result, NoMove for null.
extractMoveFromResponse(responseText) ==
  IF FencedBlock(responseText) # NoMove THEN FencedBlock(responseText)
  ELSE IF JsonObject(responseText) # NoMove THEN JsonObject(responseText)
  ELSE IF MoveProperty(responseText) # NoMove THEN MoveProperty(responseText)
  ELSE IF ExplicitPhrase(responseText) # NoMove THEN ExplicitPhrase(responseText)
  ELSE LastMention(responseText)

\* The variables of the store.
storeVars == <<gameVars, statusMessage, playerVars, isThinking,
               thinkingPlayer, autoPlay, req, timers, debugVars>>

\* A provider's parseResponse hands the content of the response it received
\* to the extractor.
ExtractMove ==
  /\ last.op = "response"
  /\ last' = Ev("extractMoveFromResponse", last.arg,
                extractMoveFromResponse(last.arg), FALSE, "")
  /\ UNCHANGED storeVars

NextExtract == ExtractMove

\* A response text has been received.
InitExtract ==
  /\ InitStore
  /\ debugMode = FALSE
  /\ whitePlayer = PersistedPlayer
  /\ blackPlayer = PersistedPlayer
  /\ last \in { Ev("response", responseText, NoMove, FALSE, "") :
                 responseText \in Texts }

SpecExtract == InitExtract /\ [][NextExtract]_vars

\* ------------------------------------------------ chessEngine.ts: exportPGN
\* An exportPGN that writes the marker of an unfinished game whatever the
\* position.
ResultMarker_AlwaysOpen(isGameOver, winner) == "*"

\* chessEngine.ts 258-263: the result marker of a position.
ResultMarker(isGameOver, winner) ==
  IF ~isGameOver THEN "*"
  ELSE IF winner = "white" THEN "1-0"
  ELSE IF winner = "black" THEN "0-1"
  ELSE "1/2-1/2"

\* chessEngine.ts exportPGN: the Result header, the move text (the plies
\* game.pgn() lists, or the placeholder when it is empty) and what is
\* appended after the move text (Undefined: nothing).
exportPGN(g, whiteName, blackName) ==
  LET gameStatus == getGameStatus(g)
      result     == ResultMarker(gameStatus.isGameOver, gameStatus.winner)
  IN  [white    |-> whiteName,
       black    |-> blackName,
       header   |-> result,
       moves    |-> IF g.ply = 0 THEN <<"(No moves)">> ELSE <<"pgn", g.ply>>,
       appended |-> IF gameStatus.isGameOver THEN result ELSE Undefined]

\* gameStore.ts copyPGN: the name written for a seat.
SeatName(player) == IF player.type = "human" THEN "Human" ELSE "AI"

\* gameStore.ts copyPGN: arg is the text handed to the clipboard, ret whether
\* the clipboard took it.
CopyPGN(written) ==
  /\ last' = Ev("copyPGN",
                exportPGN(heap[game], SeatName(whitePlayer), SeatName(blackPlayer)),
                written, FALSE, "")
  /\ UNCHANGED storeVars

\* Two humans play and export the game at any moment.
NextPgn ==
  \/ StartNewGame
  \/ \E uci \in OracleTokens : MakeHumanMove(uci)
  \/ \E written \in BOOLEAN : CopyPGN(written)

SpecPgn == Init /\ [][NextPgn]_vars

\* ------------------------------------------- index.ts: the request as a whole
\* index.ts 17-23: the keys of the providers object.
RegisteredIds == {"openrouter", "openai", "anthropic", "google", "xai"}

\* Names every object literal inherits from Object.prototype: a property
\* read with one of them yields a function or an object, which is truthy.
InheritedKeys == {"constructor", "toString", "__proto__"}

\* Values tried for config.providerId; the last two are strings no object has
\* as a property.
ProviderIds == RegisteredIds \cup InheritedKeys \cup {"mistral", ""}

\* index.ts getProvider: threw is TRUE when it throws 'Unknown provider';
\* otherwise provider is what providers[providerId] yields, an adapter for a
\* key of the literal and something else for an inherited name.
getProvider(providerId) ==
  IF providerId \in RegisteredIds
    THEN [threw |-> FALSE, adapter |-> TRUE, provider |-> providerId]
  ELSE IF providerId \in InheritedKeys
    THEN [threw |-> FALSE, adapter |-> FALSE, provider |-> providerId]
  ELSE [threw |-> TRUE, adapter |-> FALSE, provider |-> "undefined"]

\* The onDebug argument: absent, a function that returns, a function that
\* throws, and functions that throw for one type of entry only.
Observers == {"none", "returns", "throws", "throws_on_response", "throws_on_error"}

\* onDebug(entry) throws for an entry of this type.
ObserverThrows(onDebug, type) ==
  \/ onDebug = "throws"
  \/ onDebug = "throws_on_response" /\ type = "response"
  \/ onDebug = "throws_on_error" /\ type = "error"

\* What the provider does with the first, second, ... request it receives: it
\* answers with a move or fails in one of the ways of an attempt.
Behaviours(n) == [1..n -> {"move", "transport", "no_move"}]

\* How requestLLMMove ends: the requests dispatched, whether the promise
\* resolved, and the move or the error it ended with.
Settled(dispatched, resolved, value) ==
  [dispatched |-> dispatched, resolved |-> resolved, value |-> value]

\* index.ts 63-121: the loop from attempt on, with dispatched requests sent
\* so far.  provider.buildRequest (65) throws inside the try block when the
\* provider is not an adapter.  onDebug is called inside the try block after a
\* response was parsed (92-100) and inside the catch clause after a failure
\* (106-113).
RECURSIVE Attempts(_, _, _, _, _, _)
Attempts(attempt, maxRetries, lookup, behaviour, onDebug, dispatched) ==
  LET sent     == IF lookup.adapter THEN dispatched + 1 ELSE dispatched
      answer   == IF lookup.adapter THEN behaviour[sent] ELSE "not_an_adapter"
      thrown   == IF answer # "move" THEN answer
                  ELSE IF ObserverThrows(onDebug, "response") THEN "observer"
                  ELSE ""
  IN  IF thrown = "" THEN Settled(sent, TRUE, "move")
      ELSE IF ObserverThrows(onDebug, "error") THEN Settled(sent, FALSE, "observer")
      ELSE IF attempt = maxRetries THEN Settled(sent, FALSE, thrown)
      ELSE Attempts(attempt + 1, maxRetries, lookup, behaviour, onDebug, sent)

\* index.ts requestLLMMove for a provider that behaves as behaviour says.
\* getProvider (46) and the report of the prompt (52-59) come before the loop
\* and outside every try block.
requestLLMMove(config, behaviour, onDebug) ==
  LET lookup == getProvider(config.providerId) IN
  IF lookup.threw THEN Settled(0, FALSE, "Unknown provider")
  ELSE IF ObserverThrows(onDebug, "prompt") THEN Settled(0, FALSE, "observer")
  ELSE IF ~LoopRuns(config)
    THEN Settled(0, FALSE, "Failed to get move from LLM")
  ELSE Attempts(1, config.maxRetries, lookup, behaviour, onDebug, 0)

\* The calls of requestLLMMove tried.
LoopCalls ==
  UNION { [config    : { [providerId |-> id, maxRetries |-> n] : id \in ProviderIds },
           behaviour : Behaviours(n),
           onDebug   : Observers] : n \in RetryChoices }

\* requestLLMMove runs to its end on the call that was made.
RequestSettles ==
  /\ last.op = "call"
  /\ LET result == requestLLMMove(last.arg.config, last.arg.behaviour,
                                  last.arg.onDebug)
     IN  last' = Ev("requestLLMMove", last.arg, result, FALSE,
                    IF result.resolved THEN "" ELSE result.value)
  /\ UNCHANGED storeVars

NextLoop == RequestSettles

\* requestLLMMove has been called.
InitLoop ==
  /\ InitStore
  /\ debugMode = FALSE
  /\ whitePlayer = PersistedPlayer
  /\ blackPlayer = PersistedPlayer
  /\ last \in { Ev("call", call, FALSE, FALSE, "") : call \in LoopCalls }

SpecLoop == InitLoop /\ [][NextLoop]_vars

\* ------------------------------------------- prompt.ts: the user prompt
\* prompt.ts RECENT_MOVES_CONTEXT
RECENT_MOVES_CONTEXT == 10

\* A prompt that marks the history as cut when it just fills the window.
Truncated_AtLimit(sanHistory) == Len(sanHistory) >= RECENT_MOVES_CONTEXT

\* prompt.ts 42, 47: moveHistory.length > RECENT_MOVES_CONTEXT
Truncated(sanHistory) == Len(sanHistory) > RECENT_MOVES_CONTEXT

\* prompt.ts 41-48: the words of the '## Recent Moves' section of the user
\* prompt, in the order join(' ') writes them; the marker '... ' is the word
\* "...".
recentMovesDisplay(sanHistory) ==
  LET recentMoves == IF Truncated(sanHistory)
                       THEN sliceLast(sanHistory, RECENT_MOVES_CONTEXT)
                       ELSE sanHistory
  IN  IF Len(recentMoves) > 0
        THEN (IF Truncated(sanHistory) THEN <<"...">> ELSE <<>>) \o recentMoves
        ELSE <<"(Opening)">>

\* The move texts the histories tried are made of.
SanTexts == {"e4", "Nf3"}

\* The histories tried.
Histories == UNION { [1..n -> SanTexts] : n \in 0..MaxHistory }

\* index.ts 47-50: requestLLMMove builds the user prompt for the history it
\* was given.
BuildPrompt ==
  /\ last.op = "history"
  /\ last' = Ev("buildChessUserPrompt", last.arg, recentMovesDisplay(last.arg),
                FALSE, "")
  /\ UNCHANGED storeVars

NextPrompt == BuildPrompt

\* A move history has been handed to requestLLMMove.
InitPrompt ==
  /\ InitStore
  /\ debugMode = FALSE
  /\ whitePlayer = PersistedPlayer
  /\ blackPlayer = PersistedPlayer
  /\ last \in { Ev("history", moveHistorySan, <<>>, FALSE, "") :
                 moveHistorySan \in Histories }

SpecPrompt == InitPrompt /\ [][NextPrompt]_vars

\* ------------------------------------------------------------ properties
\* The store fields a user sees of the game.
sessionVars == <<fen, moveHistory, currentTurn, status, statusMessage,
                 isThinking, thinkingPlayer, autoPlay>>

\* A call of requestAIMove (by the interface, toggleAutoPlay or a timer) or the
\* completion of one has just ended.
RequestEnded(ev) ==
  ev.op \in {"requestAIMove", "toggleAutoPlay", "timer", "aiResolved", "aiRejected"}

\* C1: when a request whose object the store has replaced (startNewGame or
\* resetGame ran while it was in flight) resolves with a move, fen,
\* moveHistory, currentTurn, status, statusMessage, isThinking, thinkingPlayer
\* and autoPlay keep their values, the store's current object is not mutated
\* or swapped, and no auto-play timer is scheduled.
C1_StaleSuccessDiscarded ==
  [][ (last'.op = "aiResolved" /\ last'.stale)
        => /\ UNCHANGED sessionVars
           /\ game' = game
           /\ heap'[game] = heap[game]
           /\ timers' = timers ]_vars

\* C1 witness: a replaced object's request has resolved with a move that is
\* legal in the new game, which is still at its start.
C1_Witness ==
  /\ last.op = "aiResolved"
  /\ last.stale
  /\ isLegalMove(heap[game], last.arg)
  /\ status = "playing"
  /\ moveHistory = <<>>

\* C2: when a request whose object the store has replaced fails after its
\* last attempt, status, statusMessage and autoPlay keep their values and
\* isThinking / thinkingPlayer of a newer request are not cleared.
C2_StaleFailureDiscarded ==
  [][ (last'.op = "aiRejected" /\ last'.stale)
        => /\ UNCHANGED sessionVars
           /\ game' = game
           /\ req'[game] = req[game] ]_vars

\* C2 witness: the replaced object's request has failed while a newer request
\* of the new game is still in flight.
C2_Witness ==
  /\ last.op = "aiRejected"
  /\ last.stale
  /\ status = "playing"
  /\ isThinking
  /\ req[game].pc # "none"

\* C3 (as stated): while isThinking is true, every makeHumanMove returns false
\* and changes neither fen, moveHistory, currentTurn nor status.
C3_HumanExcludedWhileThinking ==
  [][ (isThinking /\ last'.op = "makeHumanMove")
        => /\ ~last'.ret
           /\ UNCHANGED <<fen, moveHistory, currentTurn, status>> ]_vars

Tokens(h) == [i \in 1..Len(h) |-> h[i].uci]

\* The object reached by playing tokens from g on the oracle itself, choosing
\* each move by its token among the moves offered ("invalid": none was).
RECURSIVE Replay(_, _)
Replay(g, tokens) ==
  IF tokens = <<>> THEN g
  ELSE LET ms == { move \in OracleMoves(g.node) :
                     move.from \o move.to \o move.promotion = Head(tokens) }
       IN  IF ms = {} THEN [node |-> "invalid", ply |-> g.ply]
           ELSE Replay([node |-> (CHOOSE move \in ms : TRUE).next,
                        ply  |-> g.ply + 1], Tail(tokens))

\* The store's position and every entry of the history are what the replay of
\* the recorded tokens gives.
HistoryReplays ==
  LET tokens == Tokens(moveHistory) IN
  /\ heap[game] = Replay(NewChess, tokens)
  /\ fen = FenOf(Replay(NewChess, tokens))
  /\ \A i \in 1..Len(moveHistory) :
       moveHistory[i].fen = FenOf(Replay(NewChess, SubSeq(tokens, 1, i)))

\* A call that returned true appended one entry carrying its token; a call
\* that returned false and every other operation left the history alone,
\* except startNewGame and resetGame, which empty it.
HistoryAppendOnly ==
  IF last'.op = "makeHumanMove" /\ last'.ret
    THEN /\ Len(moveHistory') = Len(moveHistory) + 1
         /\ SubSeq(moveHistory', 1, Len(moveHistory)) = moveHistory
         /\ moveHistory'[Len(moveHistory')].uci = last'.arg
    ELSE IF last'.op \in {"startNewGame", "resetGame"}
    THEN moveHistory' = <<>>
    ELSE moveHistory' = moveHistory

Dispatches(g) == req'[g].dispatched > req[g].dispatched /\ req'[g].pc = "fetch"
Returns(g)    == req[g].pc = "fetch" /\ req'[g].pc = "none"
WaitsAgain(g) == req[g].pc = "fetch" /\ req'[g].pc = "backoff"

\* C6: with maxRetries = n >= 1 the provider is dispatched at most n times; the
\* call fails only when the n-th attempt has failed, with that attempt's
\* error, and a failure of an earlier attempt surfaces nothing; a successful
\* attempt ends the call without a further dispatch.
C6_RetryCeiling ==
  [][ \A g \in Ids :
        /\ Dispatches(g) => /\ req'[g].dispatched = req[g].dispatched + 1
                            /\ req'[g].dispatched <= req'[g].maxRetries
        /\ (Returns(g) /\ last'.op = "aiRejected")
             => /\ req[g].dispatched = req[g].maxRetries
                /\ \E kind \in AllErrorKinds : AttemptFails(g, kind) /\ last'.err = kind
                /\ g = game => statusMessage' = <<"AI Error", last'.err>>
        /\ WaitsAgain(g) => /\ req[g].dispatched < req[g].maxRetries
                            /\ UNCHANGED sessionVars
        /\ (Returns(g) /\ last'.op = "aiResolved")
             => /\ 1 <= req[g].dispatched
                /\ req[g].dispatched <= req[g].maxRetries ]_vars

\* C6 witness: with a limit of at least two, every attempt has failed, the
\* last one because no move could be extracted, and the call has failed on the
\* current game after as many dispatches as the limit.
C6_Witness ==
  /\ last.op = "aiRejected"
  /\ ~last.stale
  /\ SeatToMove.llmConfig.maxRetries >= 2
  /\ last.err = "no_move"
  /\ statusMessage = <<"AI Error", "no_move">>

\* C7: a timer that fires while autoPlay is off (or the game is not being
\* played) issues no requestAIMove: isThinking and the other fields keep their
\* values and no call is begun.  The decision is made on the values the store
\* has when the timer fires.
C7_TimerReadsLiveState ==
  [][ (last'.op = "timer" /\ (~autoPlay \/ status # "playing"))
        => /\ ~last'.ret
           /\ UNCHANGED <<sessionVars, req, game, heap>> ]_vars

\* C7 witness: a timer has fired with autoPlay switched off, in a game still
\* being played whose seat to move is an AI with a key and with no call in
\* flight: a request made then would have been dispatched.
C7_Witness ==
  /\ last.op = "timer"
  /\ ~last.ret
  /\ ~autoPlay
  /\ status = "playing"
  /\ ~isThinking
  /\ moveHistory # <<>>
  /\ SeatToMove.type = "ai"
  /\ SeatToMove.llmConfig.apiKey # ""

\* C8 (as stated): a failure of the request of the current game leaves status
\* at 'playing' and fen, moveHistory and currentTurn unchanged.
C8_FailureKeepsStatus ==
  [][ (last'.op \in {"aiRejected", "aiResolved"} /\ last'.err # "" /\ ~last'.stale)
        => /\ status' = "playing"
           /\ UNCHANGED <<fen, moveHistory, currentTurn>> ]_vars

\* C9 (as stated): whenever a request for the current game ends in failure,
\* autoPlay is false afterwards and no timer has been added.
C9_FailureStopsAutoPlay ==
  [][ (RequestEnded(last') /\ last'.err # "" /\ ~last'.stale)
        => /\ autoPlay' = FALSE
           /\ timers' <= timers ]_vars

\* C10 (as stated): a response whose move is not legal in the position, on an
\* attempt before the last, is followed by another attempt: the call stays in
\* flight and nothing is reported.
C10_IllegalTokenRetried ==
  [][ (/\ last'.op = "aiResolved"
       /\ ~last'.stale
       /\ req[game].pc = "fetch"
       /\ ~(last'.arg \in getLegalMoves(heap[game]))
       /\ req[game].dispatched < req[game].maxRetries)
        => /\ req'[game].pc # "none"
           /\ req'[game].dispatched <= req[game].dispatched + 1
           /\ UNCHANGED sessionVars ]_vars

\* A step of the call on object g in which its attempt in flight failed.
FailedAttempt(g) ==
  /\ req[g].pc = "fetch"
  /\ req'[g] # req[g]
  /\ last'.op \in {"attemptFailed", "aiRejected"}

\* C11: a failed attempt, whatever the kind of failure (fetch rejected, response
\* not ok, error payload, no content, no move extracted), uses up one attempt:
\* while attempts remain the call waits, nothing of it shows in the store, and
\* the only thing the call does next is to dispatch attempt k+1; the failure
\* reaches requestAIMove only when the attempt was the last.
C11_RetryableKindsAbsorbed ==
  [][ \A g \in Ids :
        /\ FailedAttempt(g)
             => /\ last'.err \in AllErrorKinds
                /\ IF req[g].attempt < req[g].maxRetries
                     THEN /\ last'.op = "attemptFailed"
                          /\ req'[g].pc = "backoff"
                          /\ req'[g].attempt = req[g].attempt
                          /\ req'[g].dispatched = req[g].dispatched
                          /\ req'[g].lastError = last'.err
                          /\ UNCHANGED <<sessionVars, game, heap, timers>>
                     ELSE /\ last'.op = "aiRejected"
                          /\ req'[g].pc = "none"
        /\ (req[g].pc = "backoff" /\ req'[g] # req[g])
             => /\ req'[g].pc = "fetch"
                /\ req'[g].attempt = req[g].attempt + 1
                /\ req'[g].dispatched = req[g].dispatched + 1
                /\ UNCHANGED sessionVars ]_vars

\* C11 witness: the first attempt of the current game's call found no content
\* in the response, the call waited, and the second attempt is now in flight
\* with the store still showing the AI thinking in a game being played.
C11_Witness ==
  /\ last.op = "backoffDone"
  /\ req[game].pc = "fetch"
  /\ req[game].attempt = 2
  /\ req[game].lastError = "no_content"
  /\ status = "playing"
  /\ isThinking

\* C12: requestAIMove called in a game being played, with no request in flight
\* and the seat to move an AI whose apiKey is empty, changes statusMessage and
\* nothing else: status stays 'playing', fen, moveHistory, currentTurn,
\* isThinking, thinkingPlayer and the seats are unchanged, and no call to the
\* provider is begun.
C12_MissingKeyOnlyMessage ==
  [][ (/\ last'.op = "requestAIMove"
       /\ status = "playing"
       /\ ~isThinking
       /\ SeatToMove.type = "ai"
       /\ SeatToMove.llmConfig.apiKey = "")
        => /\ statusMessage' = <<"AI needs an API key", currentTurn>>
           /\ status' = "playing"
           /\ UNCHANGED <<game, heap, fen, moveHistory, currentTurn, status,
                          isThinking, thinkingPlayer, autoPlay, playerVars,
                          req, timers>>
           /\ ~last'.ret ]_vars

\* C12 witness: after white's move, requestAIMove has been called for a black
\* AI without a key and has left its message.
C12_Witness ==
  /\ last.op = "requestAIMove"
  /\ last.err = "no_api_key"
  /\ status = "playing"
  /\ currentTurn = "black"
  /\ blackPlayer.type = "ai"
  /\ blackPlayer.llmConfig.apiKey = ""
  /\ statusMessage = <<"AI needs an API key", "black">>
  /\ ~isThinking
  /\ Len(moveHistory) = 1

\* C13: requestAIMove called when status is not 'playing', or while isThinking
\* is true, or when the seat to move is human, changes no field of the store,
\* does not set isThinking and begins no call to the provider.
C13_RequestNoOp ==
  [][ (/\ last'.op = "requestAIMove"
       /\ \/ status # "playing"
          \/ isThinking
          \/ SeatToMove.type = "human")
        => /\ UNCHANGED <<game, heap, fen, moveHistory, currentTurn, status,
                          statusMessage, isThinking, thinkingPlayer, autoPlay,
                          playerVars, req, timers>>
           /\ ~last'.ret ]_vars

\* C13 witness: requestAIMove has been called, and has returned at once, while
\* the request of the game being played was in flight.
C13_Witness ==
  /\ last.op = "requestAIMove"
  /\ ~last.ret
  /\ status = "playing"
  /\ isThinking
  /\ req[game].pc = "fetch"
  /\ SeatToMove.type = "ai"

\* C14 (as stated): toggleAutoPlay called while autoPlay is false and status is
\* not 'playing' leaves autoPlay false, changes nothing else and begins no
\* request.
C14_ToggleOutsideGameNoOp ==
  [][ (last'.op = "toggleAutoPlay" /\ ~autoPlay /\ status # "playing")
        => /\ autoPlay' = FALSE
           /\ UNCHANGED <<sessionVars, game, heap, req, timers>> ]_vars

\* A move has just been committed to the store's game: makeHumanMove returned
\* true, or the request of the current game resolved and its move was applied.
Committed ==
  \/ last'.op = "makeHumanMove" /\ last'.ret
  \/ last'.op = "aiResolved" /\ last'.ret /\ ~last'.stale

\* C16: after every committed move, human or AI, the status follows the
\* oracle's verdict on the new position: checkmate gives the win status of the
\* side that moved; stalemate, insufficient material, threefold repetition and
\* the fifty-move rule give 'draw'; otherwise the status is 'playing'; and
\* currentTurn is the side the oracle says is to move.
C16_StatusRecomputed ==
  [][ Committed
        => LET verdict == NodeKind(heap'[game'].node)
               mover   == Turn(heap[game])
           IN  /\ verdict = "checkmate"
                    => status' = IF mover = "w" THEN "white_wins" ELSE "black_wins"
               /\ verdict \in {"stalemate", "insufficient", "threefold", "fifty"}
                    => status' = "draw"
               /\ verdict \in {"check", "none"} => status' = "playing"
               /\ currentTurn' = IF Turn(heap'[game']) = "w" THEN "white" ELSE "black"
               /\ heap'[game'].ply = heap[game].ply + 1
               /\ game' = game ]_vars

\* C16 witness: the black AI's move has been applied and has stalemated white:
\* the game is a draw.
C16_Witness ==
  /\ last.op = "aiResolved"
  /\ last.ret
  /\ NodeKind(heap[game].node) = "stalemate"
  /\ status = "draw"
  /\ currentTurn = "white"
  /\ blackPlayer.type = "ai"

\* The statuses of a finished game.
Terminal == {"white_wins", "black_wins", "draw"}

\* C15 (as stated): after a committed move, human or AI, that ends the game
\* (status white_wins, black_wins or draw), autoPlay is false.
C15_GameEndClearsAutoPlay ==
  [][ (Committed /\ status' \in Terminal) => autoPlay' = FALSE ]_vars

\* C17 (as stated): once the status is white_wins, black_wins or draw, no
\* operation other than startNewGame and resetGame, and no completion of a
\* request in flight, changes status, fen, moveHistory or currentTurn.
C17_TerminalSticky ==
  [][ (status \in Terminal /\ last'.op \notin {"startNewGame", "resetGame"})
        => UNCHANGED <<status, fen, moveHistory, currentTurn>> ]_vars

AutoPlayIdle == autoPlay /\ status = "playing" /\ ~isThinking

\* C19 (as stated): with both seats AIs with a key, whenever autoPlay is true,
\* the status is 'playing' and no request is in flight, a request is eventually
\* issued, unless autoPlay is switched off or the game is reset or ended first;
\* timers fire and provider calls settle.
C19_AutoPlayProgress ==
  AutoPlayIdle ~> (isThinking \/ ~autoPlay \/ status # "playing")

\* C20: after failed attempt k < maxRetries the call waits 500 * 2^k
\* milliseconds before attempt k+1: 1000 after the first attempt and after
\* that twice the previous wait; after the failure of the last attempt it
\* does not wait.
C20_BackoffSchedule ==
  [][ \A g \in Ids :
        /\ WaitsAgain(g)
             => /\ req[g].attempt < req[g].maxRetries
                /\ req'[g].delay = 500 * 2^(req[g].attempt)
                /\ req'[g].delay = IF req[g].attempt = 1 THEN 1000
                                                         ELSE 2 * req[g].delay
        /\ (FailedAttempt(g) /\ req[g].attempt = req[g].maxRetries)
             => /\ req'[g].pc = "none"
                /\ last'.op = "aiRejected" ]_vars

\* C20 witness: with a limit of four the third attempt of the current game's
\* call has failed and the call waits 4000 milliseconds, after having waited
\* 1000 and 2000.
C20_Witness ==
  /\ req[game].pc = "backoff"
  /\ req[game].maxRetries = 4
  /\ req[game].attempt = 3
  /\ req[game].delay = 4000
  /\ isThinking

\* ------------------------------------------------- properties: extraction
\* The extractor has been applied to the text last.arg.
Extracted == last.op = "extractMoveFromResponse"

\* No token of the grammar stands in the piece, whole or as the start of the
\* word after a lead-in phrase.
NoToken(piece) ==
  /\ BareTokens(piece) = <<>>
  /\ LiteralMoves(piece) = <<>>
  /\ piece.kind = "phrase" => CapturePrefix(piece.word) = <<>>

\* A fenced block that parses and whose move field is a token of the grammar.
WellFormedFenced(piece) ==
  /\ piece.kind = "fenced"
  /\ piece.json = "ok"
  /\ piece.moves # <<>>
  /\ MatchesToken(ParsedMove(piece))

\* C21: the token of a well-formed fenced JSON block is the result whatever
\* tokens appear later in the text (every piece before the block holds no
\* token).
C21_FencedBlockWins ==
  Extracted =>
    \A i \in DOMAIN last.arg :
      ( /\ WellFormedFenced(last.arg[i])
        /\ \A j \in 1..(i - 1) : NoToken(last.arg[j]) )
      => last.ret = toLowerCase(ParsedMove(last.arg[i]))

\* Max of a non-empty set of numbers.
Largest(S) == CHOOSE n \in S : \A m \in S : m <= n

\* The pieces of a text that are bare words of the grammar.
TokenWords(text) ==
  { i \in DOMAIN text : text[i].kind = "word" /\ MatchesToken(text[i].word) }

\* No piece of the text writes a JSON move field or a lead-in phrase.
OnlyWords(text) ==
  \A i \in DOMAIN text : text[i].moves = <<>> /\ text[i].kind # "phrase"

\* C22: for a text with no JSON move field and no lead-in phrase the result is
\* the last bare token of the text, in lower case; for a text with no token at
\* all the result is null.
C22_LastMention ==
  Extracted =>
    /\ ( OnlyWords(last.arg) /\ TokenWords(last.arg) # {} )
         => last.ret =
              toLowerCase(last.arg[Largest(TokenWords(last.arg))].word)
    /\ ( \A i \in DOMAIN last.arg : NoToken(last.arg[i]) )
         => last.ret = NoMove

\* Two different bare tokens and nothing else that counts: the second one is
\* returned.
C22_Witness ==
  /\ Extracted
  /\ OnlyWords(last.arg)
  /\ Len(last.arg) = 2
  /\ last.arg[1] = Word(e2e4)
  /\ last.arg[2] = Word(G1F3)
  /\ last.ret = g1f3

\* The strings of the move-token grammar in lower case.
LowerTokens ==
  (FileChars \X RankChars \X FileChars \X RankChars)
    \cup (FileChars \X RankChars \X FileChars \X RankChars \X PromoChars)

\* A fenced block or an object whose move field is not a token.
Malformed(piece) ==
  /\ piece.kind \in {"fenced", "inline"}
  /\ piece.moves # <<>>
  /\ ~MatchesToken(trim(ParsedMove(piece)))

\* C23: every result that is not null is a token of the grammar in lower case;
\* a malformed JSON move field is not returned, and a text that holds one
\* together with a token elsewhere still yields a token.
C23_GrammarGuarantee ==
  Extracted =>
    /\ last.ret # NoMove => last.ret \in LowerTokens
    /\ \A i \in DOMAIN last.arg :
         Malformed(last.arg[i]) =>
           /\ last.ret # toLowerCase(ParsedMove(last.arg[i]))
           /\ ( \E j \in DOMAIN last.arg : ~NoToken(last.arg[j]) )
                => last.ret # NoMove

\* A fenced block with a malformed move comes first and an upper-case bare
\* token follows: the token is returned in lower case.
C23_Witness ==
  /\ Extracted
  /\ Len(last.arg) = 2
  /\ last.arg[1] = Fenced("ok", FALSE, <<castle>>)
  /\ last.arg[2] = Word(G1F3)
  /\ last.ret = g1f3

\* ------------------------------------------------------ properties: export
\* The game has been exported in the position the store holds.
Exported == last.op = "copyPGN"

\* The side that made the last move of the game.
LastMover == moveHistory[Len(moveHistory)].color

\* The marker the claim gives for the position of the store's object.
ClaimedMarker ==
  LET kind == NodeKind(heap[game].node) IN
  IF kind = "checkmate" THEN (IF LastMover = "white" THEN "1-0" ELSE "0-1")
  ELSE IF kind \in {"stalemate", "threefold", "insufficient", "fifty"}
    THEN "1/2-1/2"
  ELSE "*"

\* C24: the export of a game ended by checkmate carries 1-0 when white gave
\* mate and 0-1 when black did, in the Result header and after the move text;
\* a drawn game carries 1/2-1/2 in both places; * is written only for a game
\* that is not over, in the header alone.
C24_ExportResult ==
  Exported =>
    /\ last.arg.header = ClaimedMarker
    /\ last.arg.appended =
         (IF ClaimedMarker = "*" THEN Undefined ELSE ClaimedMarker)
    /\ last.arg.header = "*" <=> status = "playing" \/ status = "idle"

\* A game white won by checkmate has been exported with 1-0 in both places.
C24_Witness ==
  /\ Exported
  /\ NodeKind(heap[game].node) = "checkmate"
  /\ LastMover = "white"
  /\ last.arg.header = "1-0"
  /\ last.arg.appended = "1-0"

\* ----------------------------------------------- properties: whole request
\* A call of requestLLMMove has ended.
LoopEnded == last.op = "requestLLMMove"

\* C25: for every id that is not one of the registered ones the request ends
\* with the unknown-provider error and dispatches nothing; for a registered id
\* the adapter of that id is used.
C25_UnknownProviderFails ==
  LoopEnded =>
    LET lookup == getProvider(last.arg.config.providerId) IN
    IF last.arg.config.providerId \in RegisteredIds
      THEN /\ ~lookup.threw
           /\ lookup.provider = last.arg.config.providerId
      ELSE /\ lookup.threw
           /\ ~last.ret.resolved
           /\ last.ret.value = "Unknown provider"
           /\ last.ret.dispatched = 0

\* C26: a call ends as the same call without observer ends: the same number of
\* dispatches, the same move or error.
C26_ObserverNonInterference ==
  LoopEnded =>
    last.ret = requestLLMMove(last.arg.config, last.arg.behaviour, "none")

\* ------------------------------------------------- properties: the caller
\* C27: no operation of the session lets an exception out: the promise of
\* requestAIMove resolves when the key is missing, when the retries are
\* exhausted, when the AI's move is illegal and when the result is stale, and
\* makeHumanMove returns a boolean.
C27_NeverRaises ==
  /\ ~last.raised
  /\ last.op = "makeHumanMove" => last.ret \in BOOLEAN

\* The AI answered with an illegal move: the call ended in the catch block,
\* the store shows the failure and nothing was raised.
C27_Witness ==
  /\ last.op = "aiResolved"
  /\ last.err = "Illegal move from AI"
  /\ ~last.stale
  /\ ~last.raised
  /\ status = "ai_error"

\* ------------------------------------------------------ properties: seats
\* C28: while status is 'playing' a call of setWhitePlayer or setBlackPlayer
\* leaves both seats as they are.
C28_SeatsStableWhilePlaying ==
  [][ ( /\ status = "playing"
        /\ last'.op \in {"setWhitePlayer", "setBlackPlayer"} )
      => UNCHANGED playerVars ]_vars

\* ----------------------------------------------------- properties: prompt
\* C30: the prompt lists a history of at most ten moves whole and in order,
\* without the marker; of a longer history it lists the marker and then
\* exactly the last ten moves in order; for an empty history it shows
\* '(Opening)'.
C30_ContextWindow ==
  last.op = "buildChessUserPrompt" =>
    LET history == last.arg
        n       == Len(history)
        shown   == last.ret
    IN  /\ n = 0 => shown = <<"(Opening)">>
        /\ (1 <= n /\ n <= RECENT_MOVES_CONTEXT) => shown = history
        /\ n > RECENT_MOVES_CONTEXT =>
             /\ Len(shown) = RECENT_MOVES_CONTEXT + 1
             /\ shown[1] = "..."
             /\ \A i \in 1..RECENT_MOVES_CONTEXT :
                  shown[i + 1] = history[n - RECENT_MOVES_CONTEXT + i]
        /\ n <= RECENT_MOVES_CONTEXT =>
             \A i \in DOMAIN shown : shown[i] # "..."

\* A history of eleven moves whose first move differs from the second: the
\* marker and the last ten moves are shown.
C30_Witness ==
  /\ last.op = "buildChessUserPrompt"
  /\ Len(last.arg) = RECENT_MOVES_CONTEXT + 1
  /\ last.arg[1] # last.arg[2]
  /\ last.ret[1] = "..."
  /\ last.ret[2] = last.arg[2]
  /\ Len(last.ret) = RECENT_MOVES_CONTEXT + 1

\* -------------------------------------------------- properties: debug log
\* The entries the step appends to debugLogs.
NewEntries ==
  IF Len(debugLogs') >= Len(debugLogs)
    THEN SubSeq(debugLogs', Len(debugLogs) + 1, Len(debugLogs'))
    ELSE <<>>

\* An entry that reports the outcome of a request to the game: the move the AI
\* played or the failure of the AI.
OutcomeEntry(entry) ==
  \/ entry.type = "move"
  \/ entry.type = "error" /\ entry.content = "AI failed"

\* C29: when a request completes whose game was replaced while it was in
\* flight, no 'move' entry and no 'AI failed' entry is appended to debugLogs,
\* whether or not debug mode was on when the request started.
C29_StaleResultNotLogged ==
  [][ ( last'.op \in {"aiResolved", "aiRejected"} /\ last'.stale )
      => /\ \A i \in DOMAIN NewEntries : ~OutcomeEntry(NewEntries[i])
         /\ SubSeq(debugLogs', 1, Len(debugLogs)) = debugLogs ]_vars

\* A request started with debug mode on has failed after its game was
\* replaced: the loop's report of the attempt is the last entry of the log
\* and no 'AI failed' entry follows it.
C29_Witness ==
  /\ last.op = "aiRejected"
  /\ last.stale
  /\ debugLogs # <<>>
  /\ debugLogs[Len(debugLogs)] = Entry("error", "Attempt")

\* ----------------------------------------------- properties: one request
\* A request started on the store's current object is in flight.
InFlightOnCurrent == req[game].pc # "none"

\* C31: isThinking is true exactly when a request started on the current
\* object is in flight, and a requestAIMove issued while one is in flight
\* starts nothing and leaves the request as it is; so no second request is
\* ever started on an object that has one.
C31_SingleRequest ==
  /\ [](isThinking <=> InFlightOnCurrent)
  /\ [][ ( InFlightOnCurrent /\ last'.op = "requestAIMove" )
         => ( ~last'.ret /\ req' = req /\ isThinking' ) ]_vars

\* A request on the current object is in flight next to a request on a
\* superseded object, and a further requestAIMove has just been refused.
C31_Witness ==
  /\ last.op = "requestAIMove"
  /\ ~last.ret
  /\ InFlightOnCurrent
  /\ isThinking
  /\ \E g \in Ids : g # game /\ req[g].pc # "none"

\* ------------------------------------------------ a seat without attempts
\* Retry limits that let the loop of requestLLMMove run no attempt.
NoAttempts == {0, -1}

\* A white AI with one attempt per move against a black AI with a key and no
\* attempt: games are started, moves requested by hand and by auto-play,
\* attempts end in each way, timers fire.
NextIdleLoop ==
  \/ StartNewGame
  \/ RequestAIMove
  \/ ToggleAutoPlay
  \/ \E g \in Ids, move \in AiMoves : AttemptSucceeds(g, move)
  \/ \E g \in Ids, kind \in ErrorKinds : AttemptFails(g, kind)
  \/ TimerFires

\* The store as constructed when the persisted black seat has a retry limit
\* below one.
InitIdleLoop ==
  /\ InitGame
  /\ whitePlayer = MergePlayer(PersistedPlayer, AiOneAttempt)
  /\ blackPlayer \in { MergePlayer(PersistedPlayer,
                                    [type |-> "ai",
                                     llmConfig |-> [apiKey |-> "sk", maxRetries |-> n]]) :
                        n \in NoAttempts }

SpecIdleLoop == InitIdleLoop /\ [][NextIdleLoop]_vars

\* ------------------------------------------------ a recorded game
\* A game of an AI with one attempt per move against a human: moves of both
\* kinds, failed requests, new games and resets.
NextRecord ==
  \/ StartNewGame
  \/ ResetGame
  \/ \E uci \in ShortGame : MakeHumanMove(uci)
  \/ RequestAIMove
  \/ \E g \in Ids, move \in ShortGame : AttemptSucceeds(g, move)
  \/ \E g \in Ids, kind \in ErrorKinds : AttemptFails(g, kind)

\* The store as constructed when the persisted white seat is an AI with a key
\* and a single attempt, and the black seat a human.
InitRecord ==
  /\ InitGame
  /\ whitePlayer = MergePlayer(PersistedPlayer, AiOneAttempt)
  /\ blackPlayer = PersistedPlayer

SpecRecord == InitRecord /\ [][NextRecord]_vars

\* ------------------------------------------------ properties: the record
\* The colour of the entry at 1-based index i of a well-formed history.
ColorAt(i) == IF i % 2 = 1 THEN "white" ELSE "black"

\* C32: currentTurn is white exactly when moveHistory has even length, the
\* colours of the entries alternate starting with white, and the entry at
\* 0-based index i carries move number floor(i/2) + 1.
C32_TurnHistoryParity ==
  /\ currentTurn = "white" <=> Len(moveHistory) % 2 = 0
  /\ currentTurn \in {"white", "black"}
  /\ \A i \in 1..Len(moveHistory) :
       /\ moveHistory[i].color = ColorAt(i)
       /\ moveHistory[i].moveNumber = ((i - 1) \div 2) + 1

\* An AI move has just been committed as the third move of a game, after a
\* human move, and it is move 2 by white with black to move.
C32_Witness ==
  /\ last.op = "aiResolved" /\ last.ret
  /\ Len(moveHistory) = 3
  /\ moveHistory[3].color = "white" /\ moveHistory[3].moveNumber = 2
  /\ moveHistory[2].color = "black" /\ moveHistory[2].moveNumber = 1
  /\ currentTurn = "black"

\* The fen of the last entry of the history, or the starting position.
LastRecordedFen ==
  IF moveHistory = <<>> THEN INITIAL_FEN ELSE moveHistory[Len(moveHistory)].fen

\* A request has just ended without committing: it failed, its move was
\* refused, or its result was discarded as stale.
EndedWithoutCommit ==
  \/ last'.op = "aiRejected"
  \/ last'.op = "aiResolved" /\ ~last'.ret

\* C33: the store's fen is the position of the store's game object and the
\* fen of the last entry of moveHistory (the starting position when there is
\* none); the object changes only in a step that changes fen and moveHistory
\* with it, and a request that fails or is stale changes none of the three.
C33_PositionConsistency ==
  /\ [](fen = FenOf(heap[game]) /\ fen = LastRecordedFen)
  /\ [][ heap'[game'] # heap[game]
         => ( fen' = FenOf(heap'[game']) /\ fen' = LastRecordedFen' ) ]_vars
  /\ [][ EndedWithoutCommit
         => ( heap'[game'] = heap[game] /\ fen' = fen
              /\ moveHistory' = moveHistory ) ]_vars

\* A stale result has just been discarded while the game that replaced its
\* own has a move on the board.
C33_Witness ==
  /\ last.op = "aiResolved" /\ last.stale /\ ~last.ret
  /\ Len(moveHistory) >= 1
  /\ fen # INITIAL_FEN

\* The seat a colour plays from.
SeatOf(color) == IF color = "white" THEN whitePlayer ELSE blackPlayer

\* A request has just committed a move.
AiCommitted == last'.op = "aiResolved" /\ last'.ret

\* C34: a request commits a move only for the seat that asked for it: the
\* record's colour is the turn captured when the request started, the move
\* is made on the position that was sent to the provider, and the seat of
\* that colour is an AI when the move is committed.
C34_CommitForRequestingSeat ==
  [][ AiCommitted
      => /\ moveHistory'[Len(moveHistory')].color = thinkingPlayer
         /\ fen = req[game].fen
         /\ SeatOf(thinkingPlayer).type = "ai" ]_vars

\* The call on object g ends in this step.
Ends(g) == req[g].pc # "none" /\ req'[g].pc = "none"

\* The three ways a call ends, as the store shows them.
EndsCommitted(g) ==
  /\ last'.op = "aiResolved" /\ last'.ret /\ ~last'.stale
  /\ Len(moveHistory') = Len(moveHistory) + 1
  /\ ~isThinking'

EndsFailed(g) ==
  /\ last'.op \in {"aiResolved", "aiRejected"} /\ ~last'.ret /\ ~last'.stale
  /\ status' = "ai_error" /\ moveHistory' = moveHistory
  /\ ~isThinking'

EndsStale(g) ==
  /\ last'.op \in {"aiResolved", "aiRejected"} /\ ~last'.ret /\ last'.stale
  /\ g # game
  /\ UNCHANGED <<game, fen, moveHistory, currentTurn, status, statusMessage,
                 isThinking, thinkingPlayer, autoPlay>>

\* C35: when every provider call and every wait between attempts completes,
\* a request that has set isThinking ends, and it ends in exactly one of three
\* ways: it commits a move, it records a failure, or it is discarded as
\* stale; isThinking does not stay true forever.
C35_RequestTerminates ==
  /\ \A g \in Ids : (req[g].pc # "none") ~> (req[g].pc = "none")
  /\ isThinking ~> ~isThinking
  /\ [][ \A g \in Ids :
           Ends(g) => \/ EndsCommitted(g) /\ ~EndsFailed(g) /\ ~EndsStale(g)
                      \/ EndsFailed(g) /\ ~EndsCommitted(g) /\ ~EndsStale(g)
                      \/ EndsStale(g) /\ ~EndsCommitted(g) /\ ~EndsFailed(g) ]_vars

\* A request has used up its attempts and recorded the failure: the session
\* is no longer thinking.
C35_Witness ==
  /\ last.op = "aiRejected" /\ ~last.stale
  /\ status = "ai_error" /\ ~isThinking
  /\ req[game].pc = "none"

\* The generic error of requestLLMMove.
GenericError == "Failed to get move from LLM"

\* requestAIMove passes its guards in this step, called by the user, by
\* toggleAutoPlay or by a timer, for a seat whose retry limit is below one.
RequestWithoutAttempts ==
  /\ ~RequestRefused
  /\ SeatToMove.type = "ai"
  /\ ~MissingKey(SeatToMove.llmConfig)
  /\ SeatToMove.llmConfig.maxRetries <= 0
  /\ last'.op \in {"requestAIMove", "toggleAutoPlay", "timer"}
  /\ last'.ret

\* C36: with maxRetries <= 0 requestLLMMove dispatches nothing, waits for
\* nothing and fails with 'Failed to get move from LLM'; the session treats
\* it as any failure of the AI: isThinking is cleared, autoPlay is switched
\* off, the error is shown, and the position is left alone.
C36_NoAttemptsFails ==
  [][ RequestWithoutAttempts
      => /\ req'[game].pc = "none"
         /\ last'.err = GenericError /\ ~last'.raised
         /\ ~isThinking' /\ thinkingPlayer' = "null"
         /\ ~autoPlay'
         /\ status' = "ai_error"
         /\ statusMessage' = <<"AI Error", GenericError>>
         /\ UNCHANGED <<game, heap, fen, moveHistory, currentTurn>>
         /\ \A id \in RegisteredIds, onDebug \in {"none", "returns"} :
              requestLLMMove([providerId |-> id,
                              maxRetries |-> SeatToMove.llmConfig.maxRetries],
                             <<>>, onDebug)
                = Settled(0, FALSE, GenericError) ]_vars

\* Auto-play has just asked for a move of the seat without attempts: the
\* request has failed with the generic error and auto-play is off.
C36_Witness ==
  /\ last.op = "timer" /\ last.ret /\ last.err = GenericError
  /\ SeatToMove.llmConfig.maxRetries <= 0
  /\ Len(moveHistory) = 1
  /\ status = "ai_error" /\ ~isThinking /\ ~autoPlay
  /\ req[game].pc = "none"

\* The smaller of two numbers.
Least(a, b) == IF a <= b THEN a ELSE b

\* C37: debugLogs never holds more than 100 entries; after the n-th call of
\* addDebugLog since it was last empty it holds the most recent min(n, 100)
\* entries in the order they were added; clearDebugLogs empties it and
\* changes nothing else.
C37_LogWindow ==
  /\ [](Len(debugLogs) <= LogLimit)
  /\ [](last.op = "addDebugLog"
          => LET n    == last.arg
                 kept == Least(n, LogLimit)
             IN  /\ Len(debugLogs) = kept
                 /\ \A i \in 1..kept : debugLogs[i].content = n - kept + i)
  /\ [][ last'.op = "clearDebugLogs"
         => /\ debugLogs' = <<>>
            /\ UNCHANGED <<gameVars, statusMessage, playerVars, isThinking,
                           thinkingPlayer, autoPlay, req, timers, debugMode>> ]_vars

\* Two entries more than the log keeps have been added in a game that is
\* being played: the two oldest are gone.
C37_Witness ==
  /\ last.op = "addDebugLog" /\ last.arg = LogLimit + 2
  /\ Len(debugLogs) = LogLimit
  /\ debugLogs[1].content = 3 /\ debugLogs[LogLimit].content = LogLimit + 2
  /\ status = "playing"

====
